---- MODULE Spec2Model ----
(***************************************************************************)
(* A model of the agent orchestration core of pilot-langgraph-mcp-cli:     *)
(* the LangGraph workflow of AgentService (process_input,                  *)
(* generate_response, call_tools, format_output), its two entry points     *)
(* chat() and chat_stream_with_workflow(), the event stream the latter     *)
(* yields, and the session history (ConversationState.messages) that the   *)
(* callers keep across turns.  ChatbotService, the tool-less service of    *)
(* src/main.py, is modelled beside it.                                     *)
(*                                                                         *)
(* Texts are sequences of characters over a small alphabet; tool calls are *)
(* records [id, name]; messages are records with the fields of the         *)
(* LangChain message classes that the code reads.                          *)
(***************************************************************************)
EXTENDS Integers, Sequences, FiniteSets, TLC

VARIABLES
    service,        \* "agent" (AgentService) or "chatbot" (ChatbotService)
    hasTools,       \* the tool catalog is non-empty (self.tool_node is not None)
    debug_mode,     \* the debug flag passed to chat_stream_with_workflow
    conv,           \* conversation_state["messages"]
    pc,             \* "idle" between turns, else the node that runs next
    mode,           \* entry point of the current turn: "stream" or "invoke"
    st,             \* AgentState of the running workflow
    step,           \* supersteps the workflow has executed in this turn
    events,         \* events yielded by chat_stream_with_workflow in this turn
    tools_displayed,
    final_response_started,
    result,         \* how the turn ended and what chat() returned
    trace,          \* nodes executed in this turn, in order
    routed,         \* what the conditional router returned last
    llm,            \* LLM invocations of this turn: their outcomes, in order
    pre,            \* conv when the turn started
    executions,     \* starts and ends of the tool runs of the last call_tools
    tool_registry,  \* ToolRegistry: the local tools and their status
    mcp_registry,   \* MCPRegistry: the configured servers
    mgr_servers,    \* MCPClientManager.servers (names, in order)
    mgr_client,     \* MCPClientManager.client: None or the MCPClient
    agent_tools,    \* AgentService.tools, the tool catalog
    tool_node,      \* AgentService.tool_node: None or the ToolNode
    app,            \* the workflow AgentService has compiled
    last_init,      \* the last MCPClientManager.initialize(): what it returned
    warnings,       \* the warnings logged so far
    settings,       \* the server entries a configuration is read from
    config_log,     \* who loaded the entries, and the lines logged meanwhile
    last_register,  \* the last ToolRegistry.register_tool(): before and after
    stdin,          \* continuous mode: the lines not read yet
    is_tty,         \* sys.stdin.isatty()
    save,           \* --save was given
    streaming,      \* streaming_enabled
    loop,           \* the while True of the session: "idle" before it is
                    \* entered, then "running", then "exited"
    ended_by,       \* what ended the loop: "bye", "eof", "interrupt"
    consumed,       \* the lines read so far
    echoed,         \* the lines the program has printed back
    turns,          \* the turns started: input, how it ended, the answer
    conversation_log,
    reports,        \* the errors printed by the loop's except Exception
    transcript,     \* the file --save names: None or what was written
    answer,         \* formatting: the text the model has answered with
    format_pc,      \* "idle", or how far the answer has come: "generated",
                    \* "formatted" (by the node), "streamed" (by the stream)
    node_state,     \* the update the format_output node has returned
    stream_end,     \* what the stream made of the format_output chunk
    exported,       \* the files the export command has written
    time_call,      \* the last call of get_current_time and its result
    last_toggle     \* the last enable_tool / disable_tool and its result

vars == <<service, hasTools, debug_mode, conv, pc, mode, st, step, events,
          tools_displayed, final_response_started, result, trace, routed,
          llm, pre, executions, tool_registry, mcp_registry, mgr_servers,
          mgr_client, agent_tools, tool_node, app, last_init, warnings,
          settings, config_log, last_register, stdin, is_tty, save,
          streaming, loop, ended_by, consumed, echoed, turns,
          conversation_log, reports, transcript, answer, format_pc,
          node_state, stream_end, exported, time_call, last_toggle>>

\* the state of one turn, and the state of the tool catalog and its sources
turnVars == <<conv, pc, mode, st, step, events, tools_displayed,
              final_response_started, result, trace, routed, llm, pre,
              executions>>
catalogVars == <<tool_registry, mcp_registry, mgr_servers, mgr_client,
                 agent_tools, tool_node, app, last_init, warnings>>
\* the state of the configuration and registration probes
setupVars == <<settings, config_log, last_register>>
\* everything that a turn and the start-up of a command leave alone
\* the state of the continuous-mode loop around the turns
sessionVars == <<stdin, is_tty, save, streaming, loop, ended_by, consumed,
                 echoed, turns, conversation_log, reports, transcript>>
\* the state of the formatting of one answer
formatVars == <<answer, format_pc, node_state, stream_end>>
\* the state of the probes of the local tools
toolVars == <<time_call, last_toggle>>
outerVars == <<setupVars, sessionVars, formatVars, exported, toolVars>>

----------------------------------------------------------------------------
(* Bounds of the model. *)

\* A new turn starts only while the history holds fewer messages than this.
MaxHist == 6

\* Reasoning passes of a turn in which the LLM's answer is drawn from every
\* response shape (see LLMOutcomes).
MaxVaried == 2

\* connect_mcp_servers runs only while the catalog holds fewer tools than this.
MaxCatalog == 3

(* LangGraph's default recursion_limit: the compiled graph is invoked      *)
(* without a config, so at most 25 supersteps run in one invocation.       *)
RecursionLimit == 25

----------------------------------------------------------------------------
(* Texts. *)

SystemPrompt == <<"sys">>
UserInputs == {<<"q">>}
ApologyGenerate == <<"apology_generate">>
ApologyProcess == <<"apology_process">>
WhitespaceChars == {" ", "\n"}

Last(s) == s[Len(s)]

RECURSIVE LStrip(_)
LStrip(text) ==
    IF text # <<>> /\ Head(text) \in WhitespaceChars
    THEN LStrip(Tail(text)) ELSE text

RECURSIVE RStrip(_)
RStrip(text) ==
    IF text # <<>> /\ Last(text) \in WhitespaceChars
    THEN RStrip(SubSeq(text, 1, Len(text) - 1)) ELSE text

Strip(text) == RStrip(LStrip(text))

IsSpace(c) == c \in WhitespaceChars

\* the character that opens and closes a code run
Backquote == "backquote"

\* the first index from i on whose character is in S; Len(t) + 1 if none
Find(t, i, S) ==
    IF \E k \in i..Len(t) : t[k] \in S
    THEN CHOOSE k \in i..Len(t) :
             t[k] \in S /\ \A j \in i..(k - 1) : t[j] \notin S
    ELSE Len(t) + 1

\* the first index from i on whose character is not in S; Len(t) + 1 if none
FindNot(t, i, S) ==
    IF \E k \in i..Len(t) : t[k] \notin S
    THEN CHOOSE k \in i..Len(t) :
             t[k] \notin S /\ \A j \in i..(k - 1) : t[j] \in S
    ELSE Len(t) + 1

(* A run between delimiters, as the patterns for bold (two stars), italic  *)
(* (one star) and code (one backquote) match it at i: n times d, one or    *)
(* more characters that are not d, n times d.  The index of its last       *)
(* character, 0 when there is no match at i.                               *)
DelimitedEnd(t, i, d, n) ==
    LET s == i + n
        e == Find(t, s, {d})
    IN IF /\ \A k \in 0..(n - 1) : i + k <= Len(t) /\ t[i + k] = d
          /\ e > s
          /\ \A k \in 0..(n - 1) : e + k <= Len(t) /\ t[e + k] = d
       THEN e + n - 1 ELSE 0

BoldEnd(t, i) == DelimitedEnd(t, i, "*", 2)

(* The substitutions of _improve_line_breaks.  Each is re.sub: the text is *)
(* scanned from the left, a match is replaced and the scan goes on behind  *)
(* the match, so what one match has taken cannot begin the next.  XAt is   *)
(* the index where the match that starts at i ends, 0 without a match.     *)

\* substitution 1: a character that is not a newline, a newline, one to six
\* hashes and a whitespace character; a second newline is inserted
HeaderAt(t, i) ==
    LET h == FindNot(t, i + 2, {"#"})
    IN IF /\ i + 2 <= Len(t)
          /\ t[i] # "\n"
          /\ t[i + 1] = "\n"
          /\ h - (i + 2) \in 1..6
          /\ h <= Len(t)
          /\ IsSpace(t[h])
       THEN h ELSE 0

RECURSIVE BreakBeforeHeader(_, _)
BreakBeforeHeaderOn(t, i, e) ==
    IF e # 0
    THEN <<t[i], "\n", "\n">> \o SubSeq(t, i + 2, e)
         \o BreakBeforeHeader(t, e + 1)
    ELSE <<t[i]>> \o BreakBeforeHeader(t, i + 1)

BreakBeforeHeader(t, i) ==
    IF i > Len(t) THEN <<>> ELSE BreakBeforeHeaderOn(t, i, HeaderAt(t, i))

\* substitution 2: a hash, the rest of its line, a newline and a character
\* that is neither a newline nor a hash; a second newline is inserted
HeaderLineAt(t, i) ==
    LET n == Find(t, i, {"\n"})
    IN IF t[i] = "#" /\ n + 1 <= Len(t) /\ t[n + 1] \notin {"\n", "#"}
       THEN n + 1 ELSE 0

RECURSIVE BreakAfterHeader(_, _)
BreakAfterHeaderOn(t, i, e) ==
    IF e # 0
    THEN SubSeq(t, i, e - 2) \o <<"\n", "\n", t[e]>>
         \o BreakAfterHeader(t, e + 1)
    ELSE <<t[i]>> \o BreakAfterHeader(t, i + 1)

BreakAfterHeader(t, i) ==
    IF i > Len(t) THEN <<>> ELSE BreakAfterHeaderOn(t, i, HeaderLineAt(t, i))

\* substitution 3: a character that is not a newline, a newline, a dash, a
\* whitespace character and two stars; a second newline is inserted
BoldItemAt(t, i) ==
    IF /\ i + 5 <= Len(t)
       /\ t[i] # "\n"
       /\ t[i + 1] = "\n"
       /\ t[i + 2] = "-"
       /\ IsSpace(t[i + 3])
       /\ t[i + 4] = "*"
       /\ t[i + 5] = "*"
    THEN i + 5 ELSE 0

RECURSIVE BreakBeforeBoldItem(_, _)
BreakBeforeBoldItemOn(t, i, e) ==
    IF e # 0
    THEN <<t[i], "\n", "\n">> \o SubSeq(t, i + 2, e)
         \o BreakBeforeBoldItem(t, e + 1)
    ELSE <<t[i]>> \o BreakBeforeBoldItem(t, i + 1)

BreakBeforeBoldItem(t, i) ==
    IF i > Len(t) THEN <<>>
    ELSE BreakBeforeBoldItemOn(t, i, BoldItemAt(t, i))

\* substitution 4: a character that is not a newline, a newline, a dash and
\* a whitespace character; every match is replaced by itself
BreakBeforeItem(t) == t

\* substitution 5: a character that is not whitespace, any whitespace and a
\* bold run; the whitespace becomes one space
BoldBehindAt(t, i) ==
    IF IsSpace(t[i]) THEN 0
    ELSE BoldEnd(t, FindNot(t, i + 1, WhitespaceChars))

RECURSIVE SpaceBeforeBold(_, _)
SpaceBeforeBoldOn(t, i, e) ==
    IF e # 0
    THEN <<t[i], " ">> \o SubSeq(t, FindNot(t, i + 1, WhitespaceChars), e)
         \o SpaceBeforeBold(t, e + 1)
    ELSE <<t[i]>> \o SpaceBeforeBold(t, i + 1)

SpaceBeforeBold(t, i) ==
    IF i > Len(t) THEN <<>> ELSE SpaceBeforeBoldOn(t, i, BoldBehindAt(t, i))

\* substitution 6: a bold run, any whitespace and a character that is not
\* whitespace; the whitespace becomes one space.  e is where the bold run
\* at i ends, j the character that the match ends with.
BehindBold(t, e) ==
    IF e # 0 /\ FindNot(t, e + 1, WhitespaceChars) <= Len(t)
    THEN FindNot(t, e + 1, WhitespaceChars) ELSE 0

RECURSIVE SpaceAfterBold(_, _)
SpaceAfterBoldOn(t, i, j) ==
    IF j # 0
    THEN SubSeq(t, i, BoldEnd(t, i)) \o <<" ", t[j]>>
         \o SpaceAfterBold(t, j + 1)
    ELSE <<t[i]>> \o SpaceAfterBold(t, i + 1)

SpaceAfterBold(t, i) ==
    IF i > Len(t) THEN <<>>
    ELSE SpaceAfterBoldOn(t, i, BehindBold(t, BoldEnd(t, i)))

\* substitution 7: two bold runs with any whitespace between them; the
\* whitespace becomes two newlines.  e is where the first run ends, f where
\* the second one does.
SecondBold(t, e) ==
    IF e # 0 THEN BoldEnd(t, FindNot(t, e + 1, WhitespaceChars)) ELSE 0

RECURSIVE SplitBolds(_, _)
SplitBoldsOn(t, i, e, f) ==
    IF f # 0
    THEN SubSeq(t, i, e) \o <<"\n", "\n">>
         \o SubSeq(t, FindNot(t, e + 1, WhitespaceChars), f)
         \o SplitBolds(t, f + 1)
    ELSE <<t[i]>> \o SplitBolds(t, i + 1)

SplitBolds(t, i) ==
    IF i > Len(t) THEN <<>>
    ELSE SplitBoldsOn(t, i, BoldEnd(t, i), SecondBold(t, BoldEnd(t, i)))

\* substitution 8: three or more newlines become two.  n is the first
\* index from i on that holds no newline.
RECURSIVE CollapseBlankLines(_, _)
CollapseBlankLinesOn(t, i, n) ==
    IF n - i >= 3
    THEN <<"\n", "\n">> \o CollapseBlankLines(t, n)
    ELSE <<t[i]>> \o CollapseBlankLines(t, i + 1)

CollapseBlankLines(t, i) ==
    IF i > Len(t) THEN <<>>
    ELSE CollapseBlankLinesOn(t, i, FindNot(t, i, {"\n"}))

(* _improve_line_breaks: empty text is returned as it is; other text is    *)
(* stripped and then rewritten by the eight substitutions, in order.       *)
ImproveLineBreaks(text) ==
    IF text = <<>> THEN text
    ELSE LET t0 == Strip(text)
             t1 == BreakBeforeHeader(t0, 1)
             t2 == BreakAfterHeader(t1, 1)
             t3 == BreakBeforeBoldItem(t2, 1)
             t4 == BreakBeforeItem(t3)
             t5 == SpaceBeforeBold(t4, 1)
             t6 == SpaceAfterBold(t5, 1)
             t7 == SplitBolds(t6, 1)
         IN CollapseBlankLines(t7, 1)

RECURSIVE SplitOn(_, _)
SplitOn(text, ch) ==
    IF \E i \in 1..Len(text) : text[i] = ch
    THEN LET i == CHOOSE k \in 1..Len(text) :
                     text[k] = ch /\ \A j \in 1..(k - 1) : text[j] # ch
         IN <<SubSeq(text, 1, i - 1)>> \o SplitOn(SubSeq(text, i + 1, Len(text)), ch)
    ELSE <<text>>

(* _smart_split_for_streaming: re.findall of a bold run, an italic run, a  *)
(* code run or a run of characters that are not whitespace.  At a          *)
(* character that is not whitespace the alternatives are tried in order;   *)
(* the last one always matches there.                                      *)
OrElse(end, other) == IF end # 0 THEN end ELSE other

TokenEnd(t, i) ==
    OrElse(DelimitedEnd(t, i, "*", 2),
           OrElse(DelimitedEnd(t, i, "*", 1),
                  OrElse(DelimitedEnd(t, i, Backquote, 1),
                         Find(t, i, WhitespaceChars) - 1)))

RECURSIVE Tokens(_, _)
TokensOn(t, i, e) == <<SubSeq(t, i, e)>> \o Tokens(t, e + 1)

Tokens(t, i) ==
    IF i > Len(t) THEN <<>>
    ELSE IF IsSpace(t[i]) THEN Tokens(t, i + 1)
    ELSE TokensOn(t, i, TokenEnd(t, i))

SmartSplit(line) == Tokens(line, 1)

----------------------------------------------------------------------------
(* Messages.  mid is the message id (0: none yet); add_messages gives a    *)
(* fresh one to a message without.                                         *)

NoId == <<>>

Message(role, content, tool_calls, kwargs_calls, tool_call_id) ==
    [role |-> role, content |-> content, tool_calls |-> tool_calls,
     kwargs_calls |-> kwargs_calls, tool_call_id |-> tool_call_id, mid |-> 0]

SystemMessage(content) == Message("system", content, <<>>, <<>>, NoId)
HumanMessage(content) == Message("user", content, <<>>, <<>>, NoId)
AIMessage(content, tool_calls, kwargs_calls) ==
    Message("ai", content, tool_calls, kwargs_calls, NoId)
ToolMessage(content, tool_call_id) ==
    Message("tool", content, <<>>, <<>>, tool_call_id)

\* hasattr(msg, 'tool_calls') and msg.tool_calls: only AIMessage has the field.
HasToolCalls(msg) == msg.role = "ai" /\ msg.tool_calls # <<>>

MaxMid(msgs) ==
    IF msgs = <<>> THEN 0
    ELSE LET S == {msgs[i].mid : i \in 1..Len(msgs)}
         IN CHOOSE m \in S : \A x \in S : x <= m

(* add_messages(left, right): each message of right replaces the message   *)
(* of left with the same id, or is appended; messages without id get one.  *)
RECURSIVE MergeById(_, _)
MergeById(merged, right) ==
    IF right = <<>> THEN merged
    ELSE LET m0 == Head(right)
             m == IF m0.mid = 0
                  THEN [m0 EXCEPT !.mid = MaxMid(merged \o right) + 1]
                  ELSE m0
         IN IF \E i \in 1..Len(merged) : merged[i].mid = m.mid
            THEN LET i == CHOOSE k \in 1..Len(merged) : merged[k].mid = m.mid
                 IN MergeById([merged EXCEPT ![i] = m], Tail(right))
            ELSE MergeById(Append(merged, m), Tail(right))

AddMessages(left, right) == MergeById(MergeById(<<>>, left), right)

(* A node returns a partial state; LangGraph merges it into the state:     *)
(* messages through add_messages, every other key by overwriting.          *)
ApplyUpdate(state, update) ==
    [k \in DOMAIN state |->
        IF k \in DOMAIN update
        THEN IF k = "messages"
             THEN AddMessages(state.messages, update.messages)
             ELSE update[k]
        ELSE state[k]]

\* dict.get(key, default) on a node's update
Get(update, key, default) ==
    IF key \in DOMAIN update THEN update[key] ELSE default

----------------------------------------------------------------------------
(* The LLM and the tools: what the workflow drives.                        *)

\* Tool "A" returns, tool "B" raises when it runs; "X" is a name the LLM
\* makes up: it is not in the catalog.
Catalog == {"A", "B"}
RaisingTools == {"B"}

PlainTexts == {<<>>, <<" ">>, <<"a">>, <<" ", "a">>}

\* What one invocation of the LLM returns: a failure, or a message with a
\* content, structured tool calls (names) and the calls left in
\* additional_kwargs.
Response(content, calls, kwargs) ==
    [fail |-> FALSE, content |-> content, calls |-> calls, kwargs |-> kwargs]
LLMFailure == [fail |-> TRUE, content |-> <<>>, calls |-> <<>>, kwargs |-> <<>>]

TextResponses == {Response(c, <<>>, <<>>) : c \in PlainTexts}
ToolResponses ==
    {Response(<<>>, <<"A">>, <<>>), Response(<<>>, <<"B", "A">>, <<>>),
     Response(<<>>, <<"X">>, <<>>), Response(<<"a">>, <<"A">>, <<>>)}
\* a tool call the adapter could not parse: it stays in additional_kwargs
KwargsResponses == {Response(<<"a">>, <<>>, <<"A">>)}

\* the answer of an LLM that asks for tool "A" on every reasoning pass
AskAgain == Response(<<>>, <<"A">>, <<>>)

(* What the LLM may return, given its earlier outcomes in the turn: during *)
(* the first MaxVaried passes every shape; later it answers with text, or, *)
(* if it has asked for tool "A" on every pass so far, asks for it again.   *)
LLMOutcomes(tools, earlier) ==
    IF ~tools THEN {LLMFailure} \cup TextResponses
    ELSE IF Len(earlier) < MaxVaried
    THEN {LLMFailure} \cup TextResponses \cup ToolResponses \cup KwargsResponses
    ELSE {Response(<<"a">>, <<>>, <<>>)}
         \cup (IF \A i \in 1..Len(earlier) : earlier[i] = AskAgain
               THEN {AskAgain} ELSE {})

\* The provider gives every tool call an id; pos is the index the message
\* gets in the history, so the ids are unique in it.
MakeCalls(names, pos) ==
    [k \in 1..Len(names) |-> [id |-> <<pos, k>>, name |-> names[k]]]

(* The tool behind one call, as ToolNode runs it: errors become the content *)
(* of the ToolMessage.  For a name that is not among its tools ToolNode     *)
(* answers "Error: <name> is not a valid tool, try one of [...]."; an       *)
(* exception of the tool becomes "Error: <exception> Please fix your        *)
(* mistakes.".                                                              *)
RunTool(name) ==
    IF name \notin Catalog THEN <<"Error: ", name, " is not a valid tool">>
    ELSE IF name \in RaisingTools THEN <<"Error: ", name, " raised">>
    ELSE <<"result", name>>

----------------------------------------------------------------------------
(* The nodes of the workflow: each maps the state to the update it returns. *)

EmptyState ==
    [messages |-> <<>>, user_input |-> <<>>, ai_response |-> <<>>,
     tool_calls |-> <<>>]

InitialState(messages, user_input) ==
    [messages |-> messages, user_input |-> user_input, ai_response |-> <<>>,
     tool_calls |-> <<>>]

\* process_input gone wrong: the System message is added on every turn
ProcessInputAlwaysSystem(messages, user_input) ==
    [messages |-> messages \o <<SystemMessage(SystemPrompt),
                                 HumanMessage(user_input)>>,
     user_input |-> user_input]

ProcessInput(messages, user_input) ==
    LET withSystem == IF messages = <<>>
                      THEN <<SystemMessage(SystemPrompt)>>
                      ELSE messages
    IN [messages |-> Append(withSystem, HumanMessage(user_input)),
        user_input |-> user_input]

\* the number of most recent messages generate_response scans for tool calls
ScanWindow == 5

LastN(s, n) == IF Len(s) <= n THEN s ELSE SubSeq(s, Len(s) - n + 1, Len(s))

\* for msg in reversed(messages[-5:]): the calls of the first one that has any
ScanRecent(messages) ==
    LET w == LastN(messages, ScanWindow) IN
    IF \E i \in 1..Len(w) : HasToolCalls(w[i])
    THEN LET i == CHOOSE k \in 1..Len(w) :
                     HasToolCalls(w[k])
                     /\ \A j \in (k + 1)..Len(w) : ~HasToolCalls(w[j])
         IN w[i].tool_calls
    ELSE <<>>

\* the extraction gone wrong: the recent messages are scanned whenever the
\* structured tool calls are empty, and what is found is added
ExtractToolCallsMixed(response, messages) ==
    IF response.tool_calls # <<>> THEN response.tool_calls
    ELSE response.kwargs_calls \o ScanRecent(messages)

ExtractToolCalls(response, messages) ==
    LET found == IF response.tool_calls # <<>> THEN response.tool_calls
                 ELSE IF response.kwargs_calls # <<>> THEN response.kwargs_calls
                 ELSE <<>>
    IN IF found # <<>> THEN found ELSE ScanRecent(messages)

\* generate_response gone wrong: after a failed LLM call the recent messages
\* are still scanned for tool calls
GenerateResponseScanOnFailure(messages, outcome) ==
    IF outcome.fail
    THEN [messages |-> Append(messages, AIMessage(ApologyGenerate, <<>>, <<>>)),
          ai_response |-> ApologyGenerate,
          tool_calls |-> ScanRecent(messages)]
    ELSE LET pos == Len(messages) + 1
             response == AIMessage(outcome.content,
                                   MakeCalls(outcome.calls, pos),
                                   MakeCalls(outcome.kwargs, pos))
             appended == Append(messages, response)
         IN [messages |-> appended,
             ai_response |-> response.content,
             tool_calls |-> ExtractToolCalls(response, appended)]

GenerateResponse(messages, outcome) ==
    IF outcome.fail
    THEN [messages |-> Append(messages, AIMessage(ApologyGenerate, <<>>, <<>>)),
          ai_response |-> ApologyGenerate,
          tool_calls |-> <<>>]
    ELSE LET pos == Len(messages) + 1
             response == AIMessage(outcome.content,
                                   MakeCalls(outcome.calls, pos),
                                   MakeCalls(outcome.kwargs, pos))
             appended == Append(messages, response)
         IN [messages |-> appended,
             ai_response |-> response.content,
             tool_calls |-> ExtractToolCalls(response, appended)]

\* the router gone wrong: any recent message with tool calls sends to call_tools
ShouldCallToolsRecent(messages) ==
    IF ScanRecent(messages) # <<>> THEN "call_tools" ELSE "format_output"

ShouldCallTools(messages) ==
    IF messages # <<>> /\ HasToolCalls(Last(messages))
    THEN "call_tools" ELSE "format_output"

(* ToolNode runs the tool calls of the message concurrently (one task per *)
(* call, gathered): the runs start in call order, and a run may start     *)
(* before an earlier one has ended.  An interleaving is the sequence of   *)
(* the starts and ends, each <<"start", id>> or <<"end", id>>.            *)
ExecutionEvents(calls) ==
    {<<kind, calls[k].id>> : <<kind, k>> \in {"start", "end"} \X (1..Len(calls))}

Position(s, e) == CHOOSE i \in 1..Len(s) : s[i] = e

Interleavings(calls) ==
    {s \in [1..(2 * Len(calls)) -> ExecutionEvents(calls)] :
        /\ \A e \in ExecutionEvents(calls) : \E i \in 1..Len(s) : s[i] = e
        /\ \A k \in 1..Len(calls) :
              Position(s, <<"start", calls[k].id>>)
                  < Position(s, <<"end", calls[k].id>>)
        /\ \A k \in 1..(Len(calls) - 1) :
              Position(s, <<"start", calls[k].id>>)
                  < Position(s, <<"start", calls[k + 1].id>>)}

\* ToolNode gone wrong: only the first tool call of the message is answered
ToolNodeFirstOnly(messages) ==
    LET calls == Last(messages).tool_calls
    IN [messages |-> IF calls = <<>> THEN <<>>
                     ELSE <<ToolMessage(RunTool(calls[1].name), calls[1].id)>>]

\* ToolNode: one ToolMessage per tool call of the last message, in call order
ToolNode(messages) ==
    LET calls == Last(messages).tool_calls
    IN [messages |-> [k \in 1..Len(calls) |->
                         ToolMessage(RunTool(calls[k].name), calls[k].id)]]

FormatOutput(state) ==
    [ai_response |-> ImproveLineBreaks(state.ai_response),
     tool_calls |-> state.tool_calls]

\* the edges of _create_workflow
NextNode(node, tools, state) ==
    CASE node = "process_input" -> "generate_response"
      [] node = "generate_response" ->
            IF tools THEN ShouldCallTools(state.messages) ELSE "format_output"
      [] node = "call_tools" -> "generate_response"
      [] node = "format_output" -> "END"

Nodes == {"process_input", "generate_response", "call_tools", "format_output"}

----------------------------------------------------------------------------
(* The event stream of chat_stream_with_workflow: what the generator       *)
(* yields for the chunk {node: update} that astream delivers after a node. *)

Event(type, text, calls, info) ==
    [type |-> type, text |-> text, calls |-> calls, info |-> info]

StepEvent(dbg, node, status) ==
    IF dbg THEN <<Event("workflow_step", <<>>, <<>>, <<node, status>>)>>
    ELSE <<>>

\* the generate_response branch gone wrong: tools_pending on every pass that
\* has tool calls
OnGenerateResponseEveryPass(dbg, update, displayed, started) ==
    LET tool_calls == Get(update, "tool_calls", <<>>)
        pending == tool_calls # <<>>
        ai_response == Get(update, "ai_response", <<>>)
        ready == ai_response # <<>> /\ ~started
    IN [events |->
            StepEvent(dbg, "generate_response", "started")
            \o (IF pending
                THEN <<Event("tools_pending", <<>>, tool_calls, <<>>)>>
                ELSE <<>>)
            \o (IF ready
                THEN <<Event("ai_response_ready", ai_response, <<>>, <<>>)>>
                ELSE <<>>),
        tools_displayed |-> displayed \/ pending,
        final_response_started |-> started \/ ready]

OnGenerateResponse(dbg, update, displayed, started) ==
    LET tool_calls == Get(update, "tool_calls", <<>>)
        pending == tool_calls # <<>> /\ ~displayed
        ai_response == Get(update, "ai_response", <<>>)
        ready == ai_response # <<>> /\ ~started
    IN [events |->
            StepEvent(dbg, "generate_response", "started")
            \o (IF pending
                THEN <<Event("tools_pending", <<>>, tool_calls, <<>>)>>
                ELSE <<>>)
            \o (IF ready
                THEN <<Event("ai_response_ready", ai_response, <<>>, <<>>)>>
                ELSE <<>>),
        tools_displayed |-> displayed \/ pending,
        final_response_started |-> started \/ ready]

\* for msg in reversed(messages): the first message that has tool calls
OnCallTools(dbg, update) ==
    LET messages == Get(update, "messages", <<>>)
        executing ==
            IF \E i \in 1..Len(messages) : HasToolCalls(messages[i])
            THEN LET i == CHOOSE k \in 1..Len(messages) :
                             HasToolCalls(messages[k])
                             /\ \A j \in (k + 1)..Len(messages) :
                                    ~HasToolCalls(messages[j])
                     calls == messages[i].tool_calls
                 IN [k \in 1..Len(calls) |->
                        Event("tool_executing", <<>>, <<>>, <<calls[k].name>>)]
            ELSE <<>>
    IN StepEvent(dbg, "call_tools", "started")
       \o executing
       \o StepEvent(dbg, "call_tools", "completed")

LineEvents(line) ==
    IF Strip(line) # <<>>
    THEN LET tokens == SmartSplit(line)
         IN [k \in 1..Len(tokens) |->
                Event("text",
                      IF k = 1 THEN tokens[k] ELSE <<" ">> \o tokens[k],
                      <<>>, <<>>)]
    ELSE <<>>

RECURSIVE LinesEvents(_, _)
LinesEvents(lines, idx) ==
    IF idx > Len(lines) THEN <<>>
    ELSE LineEvents(lines[idx])
         \o (IF idx < Len(lines)
             THEN <<Event("text", <<"\n">>, <<>>, <<>>)>> ELSE <<>>)
         \o LinesEvents(lines, idx + 1)

TextEvents(formatted) == LinesEvents(SplitOn(formatted, "\n"), 1)

(* The format_output branch.  complete: the answer is not empty, so the    *)
(* history is rewritten from the chunk, the answer is streamed and the     *)
(* generator returns after streaming_complete.                             *)
OnFormatOutput(dbg, update) ==
    LET ai_response == Get(update, "ai_response", <<>>)
        formatted == ImproveLineBreaks(ai_response)
    IN IF ai_response # <<>>
       THEN [complete |-> TRUE,
             messages |-> Get(update, "messages", <<>>),
             final_response |-> formatted,
             events |->
                StepEvent(dbg, "format_output", "started")
                \o TextEvents(formatted)
                \o <<Event("streaming_complete", formatted, <<>>, <<>>)>>]
       ELSE [complete |-> FALSE,
             messages |-> <<>>,
             final_response |-> <<>>,
             events |-> StepEvent(dbg, "format_output", "started")]

----------------------------------------------------------------------------
(* How a turn ends.  kind: "returned" (chat() returned the workflow's      *)
(* answer), "fallback" (chat() caught an exception), "complete" (the       *)
(* stream ended with streaming_complete), "exhausted" (the stream ended    *)
(* without a terminal event), "error" (the stream ended with an error      *)
(* event), "raised" (an exception reached the caller).                     *)

Result(kind, cause, response, tool_calls) ==
    [kind |-> kind, cause |-> cause, response |-> response,
     tool_calls |-> tool_calls]

NoResult == Result("none", "none", <<>>, <<>>)

\* chat() without its except clause: the exception reaches the caller
ChatRaises(cause) == Result("raised", cause, <<>>, <<>>)

\* except Exception in chat()
ChatOnException(cause) == Result("fallback", cause, ApologyProcess, <<>>)

\* except Exception in chat_stream_with_workflow
StreamOnException(cause) ==
    [result |-> Result("error", cause, ApologyProcess, <<>>),
     events |-> <<Event("error", ApologyProcess, <<>>, <<>>)>>]

----------------------------------------------------------------------------
(* The tool catalog and where it comes from: the local ToolRegistry, the   *)
(* MCPRegistry of configured servers, the MCPClientManager with its        *)
(* MCPClient, and the tools, tool node and workflow of AgentService.       *)

None == <<>>

\* A tool is known by its name; origin tells the objects apart: "local" or
\* the server that advertised it.
Tool(name, origin) == [name |-> name, origin |-> origin]

Servers == {"s1", "s2"}

\* what a server advertises when its tool discovery succeeds: the tool of
\* "s2" has the name of the local tool
Advertised(server) == IF server = "s1" THEN <<"B">> ELSE <<"A">>

\* the registry after _initialize_default_tools: get_current_time, enabled
DefaultRegistry == <<[name |-> "A", enabled |-> TRUE, tool |-> "builtin"]>>

(* ToolRegistry.register_tool: three dicts keyed by tool.name.  A name     *)
(* that is already a key keeps its position and gets the new tool object   *)
(* and the new status; nothing is raised.                                  *)
RegisterTool(registry, name, tool, enabled) ==
    LET entry == [name |-> name, enabled |-> enabled, tool |-> tool]
    IN IF \E i \in 1..Len(registry) : registry[i].name = name
       THEN [registry |-> [i \in 1..Len(registry) |->
                              IF registry[i].name = name THEN entry
                              ELSE registry[i]],
             raised |-> FALSE]
       ELSE [registry |-> Append(registry, entry), raised |-> FALSE]

SetStatus(registry, name, enabled) ==
    [i \in 1..Len(registry) |->
        IF registry[i].name = name
        THEN [registry[i] EXCEPT !.enabled = enabled]
        ELSE registry[i]]

\* tool_name in self._tools
IsRegistered(registry, name) ==
    \E i \in 1..Len(registry) : registry[i].name = name

\* enable_tool / disable_tool without the membership test
ToggleToolUnchecked(registry, name, enabled) ==
    [registry |-> SetStatus(registry, name, enabled), returned |-> TRUE]

\* enable_tool (enabled = TRUE) and disable_tool (enabled = FALSE): the new
\* registry and what the call returns
ToggleTool(registry, name, enabled) ==
    IF IsRegistered(registry, name)
    THEN [registry |-> SetStatus(registry, name, enabled), returned |-> TRUE]
    ELSE [registry |-> registry, returned |-> FALSE]

IsEnabled(entry) == entry.enabled

GetEnabledTools(registry) ==
    LET on == SelectSeq(registry, IsEnabled)
    IN [i \in 1..Len(on) |-> Tool(on[i].name, "local")]

\* get_tool_count
GetToolCount(registry) ==
    LET total_tools == Len(registry)
        enabled_tools == Cardinality({i \in 1..Len(registry) :
                                         registry[i].enabled})
    IN [total |-> total_tools, enabled |-> enabled_tools,
        disabled |-> total_tools - enabled_tools]

\* the lists of servers a configuration or a caller may name
ServerLists == {<<>>, <<"s1">>, <<"s2">>, <<"s1", "s2">>}

\* a URL is its scheme and the rest; <<>> is an empty or a missing URL
NoUrl == <<>>
HttpUrl == <<"http://", "h">>
Urls == {NoUrl, <<"ftp://", "h">>, HttpUrl, <<"https://", "h">>}

\* url.startswith(("http://", "https://"))
StartsWithHttp(url) == url # <<>> /\ url[1] \in {"http://", "https://"}

\* timeouts as the configuration file has them: absent, a number, a word
DefaultTimeout == "30"
Timeouts == {"unset", DefaultTimeout, "soon"}

\* configurations: each entry names a server and says whether it is enabled
Configs ==
    UNION {{c \in [1..Len(l) -> [name : Servers, url : {HttpUrl},
                                 timeout : {DefaultTimeout},
                                 enabled : BOOLEAN]] :
               \A i \in 1..Len(l) : c[i].name = l[i]} : l \in ServerLists}

MCPServer(name, url, enabled, timeout) ==
    [name |-> name, url |-> url, enabled |-> enabled, timeout |-> timeout,
     connected |-> FALSE, last_error |-> None, tools |-> {}]

\* MCPServer.__post_init__ raises ValueError: the name and the URL are
\* looked at, the timeout is not
PostInitRaises(name, url) ==
    name = "" \/ url = <<>> \/ ~StartsWithHttp(url)

\* MCPServer.from_config: a missing name or URL is a KeyError, a missing
\* timeout is 30
FromConfig(config) ==
    [raised |-> PostInitRaises(config.name, config.url),
     server |-> MCPServer(config.name, config.url, config.enabled,
                          IF config.timeout = "unset" THEN DefaultTimeout
                          ELSE config.timeout)]

LogLine(level, name) == [level |-> level, name |-> name]

Registered(registry, name) == \E i \in 1..Len(registry) : registry[i].name = name

\* MCPRegistry.register: a dict keyed by the name, so a server registered
\* again takes the place of the old one
Register(registry, server) ==
    IF Registered(registry, server.name)
    THEN [i \in 1..Len(registry) |->
             IF registry[i].name = server.name THEN server ELSE registry[i]]
    ELSE Append(registry, server)

\* load_from_config: an entry whose server cannot be built is logged as an
\* error and left out, and the loop goes on with the next entry
RECURSIVE LoadFromConfig(_, _)
LoadFromConfig(registry, config) ==
    IF config = <<>> THEN registry
    ELSE LoadFromConfig(IF FromConfig(config[1]).raised THEN registry
                        ELSE Register(registry, FromConfig(config[1]).server),
                        Tail(config))

\* the warnings of register() while a configuration is loaded
RECURSIVE LoadWarnings(_, _)
LoadWarnings(registry, config) ==
    IF config = <<>> THEN {}
    ELSE IF FromConfig(config[1]).raised
    THEN LoadWarnings(registry, Tail(config))
    ELSE (IF Registered(registry, config[1].name)
          THEN {"server_registered_again"} ELSE {})
         \cup LoadWarnings(Register(registry, FromConfig(config[1]).server),
                           Tail(config))

\* the lines load_from_config and register() log, in order
RECURSIVE LoadLog(_, _)
LoadLog(registry, config) ==
    IF config = <<>> THEN <<>>
    ELSE IF FromConfig(config[1]).raised
    THEN <<LogLine("error", config[1].name)>>
         \o LoadLog(registry, Tail(config))
    ELSE (IF Registered(registry, config[1].name)
          THEN <<LogLine("warning", config[1].name)>> ELSE <<>>)
         \o LoadLog(Register(registry, FromConfig(config[1]).server),
                    Tail(config))

(* get_mcp_servers (my_mcp/config.py): the defaults are filled in, then an *)
(* entry without a name, without a URL or with a URL that is not http(s)   *)
(* is left out with a warning.  The timeout is not looked at.              *)
WithDefaults(server) ==
    [server EXCEPT !.timeout = IF @ = "unset" THEN DefaultTimeout ELSE @]

SettingAccepted(server) ==
    server.name # "" /\ server.url # <<>> /\ StartsWithHttp(server.url)

RECURSIVE GetMcpServers(_)
GetMcpServers(raw) ==
    IF raw = <<>> THEN [valid |-> <<>>, log |-> <<>>]
    ELSE LET rest == GetMcpServers(Tail(raw))
             server == WithDefaults(raw[1])
         IN IF SettingAccepted(server)
            THEN [valid |-> <<server>> \o rest.valid, log |-> rest.log]
            ELSE [valid |-> rest.valid,
                  log |-> <<LogLine("warning", server.name)>> \o rest.log]

\* the entries a configuration file or a caller may give
MaxEntries == 2
RawEntries == [name : {"", "s1", "s2"}, url : Urls, timeout : Timeouts,
               enabled : {TRUE}]
RawSettings == UNION {[1..n -> RawEntries] : n \in 0..MaxEntries}

NotConfigured == [by |-> "none", lines |-> <<>>]
NoRegister == [called |-> FALSE]

GetEnabledServers(registry) ==
    LET on == SelectSeq(registry, IsEnabled)
    IN [i \in 1..Len(on) |-> on[i].name]

(* MultiServerMCPClient.get_tools(): the tools of all the servers, in      *)
(* server order; up is the set of servers whose discovery succeeds.  The   *)
(* discoveries are gathered: one that fails makes the whole call raise.    *)
RECURSIVE ToolsOf(_)
ToolsOf(servers) ==
    IF servers = <<>> THEN <<>>
    ELSE [k \in 1..Len(Advertised(servers[1])) |->
             Tool(Advertised(servers[1])[k], servers[1])]
         \o ToolsOf(Tail(servers))

DiscoveryRaises(servers, up) == \E i \in 1..Len(servers) : servers[i] \notin up

\* MCPClient.initialize over its servers: the client it leaves and its result
ClientInitialize(servers, up) ==
    IF DiscoveryRaises(servers, up)
    THEN [client |-> [servers |-> servers, tools |-> <<>>], ok |-> FALSE]
    ELSE [client |-> [servers |-> servers, tools |-> ToolsOf(servers)],
          ok |-> TRUE]

\* MCPClientManager.initialize
ManagerInitialize(servers, client, up) ==
    IF servers = <<>>
    THEN [client |-> client, ok |-> FALSE, warnings |-> {"no_servers"}]
    ELSE LET r == ClientInitialize(servers, up)
         IN [client |-> <<r.client>>, ok |-> r.ok, warnings |-> {}]

\* MCPClientManager.get_tools
GetTools(client) == IF client = None THEN <<>> ELSE client[1].tools

(* MCPClient.get_tool_info: a dict keyed by the tool name; a tool without  *)
(* server_name and without "/" in its name is put down to the first server *)
(* of the client.                                                          *)
GetToolInfo(client) ==
    IF client = None THEN {}
    ELSE {[name |-> client[1].tools[i].name, server |-> client[1].servers[1]] :
             i \in 1..Len(client[1].tools)}

ToolNodeOf(tools) == IF tools # <<>> THEN <<tools>> ELSE None

\* _create_workflow: the nodes and edges of the graph, with its sentinels
CreateWorkflow(node) ==
    [nodes |-> {"__start__", "process_input", "generate_response",
                "format_output", "__end__"}
               \cup (IF node # None THEN {"call_tools"} ELSE {}),
     edges |-> {<<"__start__", "process_input">>,
                <<"process_input", "generate_response">>,
                <<"format_output", "__end__">>}
               \cup (IF node # None
                     THEN {<<"call_tools", "generate_response">>}
                     ELSE {<<"generate_response", "format_output">>}),
     conditional |-> IF node # None
                     THEN {<<"generate_response", "call_tools">>,
                           <<"generate_response", "format_output">>}
                     ELSE {}]

\* no AgentService has been constructed
NoApp == [nodes |-> {}, edges |-> {}, conditional |-> {}]

\* _integrate_mcp_tools gone wrong: the tool node and the workflow are kept
IntegrateWithoutRebuild(tools, node, workflow, mcp_tools) ==
    IF mcp_tools # <<>>
    THEN [tools |-> tools \o mcp_tools, tool_node |-> node, app |-> workflow]
    ELSE [tools |-> tools, tool_node |-> node, app |-> workflow]

\* _integrate_mcp_tools: what it leaves in tools, tool_node and app
IntegrateMcpTools(tools, node, workflow, mcp_tools) ==
    IF mcp_tools # <<>>
    THEN LET combined == tools \o mcp_tools
         IN [tools |-> combined,
             tool_node |-> ToolNodeOf(combined),
             app |-> CreateWorkflow(ToolNodeOf(combined))]
    ELSE [tools |-> tools, tool_node |-> node, app |-> workflow]

(* What the last initialize() of the manager did: reached are the servers  *)
(* it was given whose tool discovery succeeded, ok is what it returned.    *)
NeverInitialized == [called |-> FALSE, reached |-> {}, ok |-> FALSE]

----------------------------------------------------------------------------
(* The state machine. *)

\* no configuration is being probed
SetupIdle ==
    /\ settings = <<>>
    /\ config_log = NotConfigured
    /\ last_register = NoRegister

\* no continuous-mode loop is modelled
SessionIdle ==
    /\ stdin = <<>>
    /\ is_tty = FALSE
    /\ save = FALSE
    /\ streaming = FALSE
    /\ loop = "idle"
    /\ ended_by = "none"
    /\ consumed = <<>>
    /\ echoed = <<>>
    /\ turns = <<>>
    /\ conversation_log = <<>>
    /\ reports = <<>>
    /\ transcript = None

\* what the stream holds before it has seen a format_output chunk
NoStream ==
    [complete |-> FALSE, messages |-> <<>>, final_response |-> <<>>,
     events |-> <<>>]

\* no answer is being formatted
FormatIdle ==
    /\ answer = <<>>
    /\ format_pc = "idle"
    /\ node_state = [ai_response |-> <<>>, tool_calls |-> <<>>]
    /\ stream_end = NoStream

\* a file that has not been written
NoFile == [written |-> FALSE]

\* nothing has been exported
ExportIdle == exported = [json |-> NoFile, mermaid |-> NoFile]

\* no local tool has been probed
NoCall == [called |-> FALSE]
ToolsIdle == time_call = NoCall /\ last_toggle = NoCall

OuterIdle ==
    SetupIdle /\ SessionIdle /\ FormatIdle /\ ExportIdle /\ ToolsIdle

(* The catalog side of a session that is ready for its first turn          *)
(* (ChatCommand._initialize_agent): without tools the local tool is        *)
(* disabled and no server is configured; with tools the local tool "A" is  *)
(* enabled and server "s1" is connected and has brought tool "B".          *)
SessionCatalog(withTools) ==
    IF withTools
    THEN LET client == <<ClientInitialize(<<"s1">>, {"s1"}).client>>
             tools == GetEnabledTools(DefaultRegistry) \o GetTools(client)
         IN [tool_registry |-> DefaultRegistry,
             mcp_registry |-> <<MCPServer("s1", HttpUrl, TRUE,
                                          DefaultTimeout)>>,
             mgr_servers |-> <<"s1">>,
             mgr_client |-> client,
             agent_tools |-> tools,
             tool_node |-> ToolNodeOf(tools),
             last_init |-> [called |-> TRUE, reached |-> {"s1"},
                            ok |-> TRUE]]
    ELSE [tool_registry |-> SetStatus(DefaultRegistry, "A", FALSE),
          mcp_registry |-> <<>>,
          mgr_servers |-> <<>>,
          mgr_client |-> None,
          agent_tools |-> <<>>,
          tool_node |-> None,
          last_init |-> NeverInitialized]

TurnReady ==
    /\ service \in {"agent", "chatbot"}
    /\ hasTools \in BOOLEAN
    /\ debug_mode \in BOOLEAN
    /\ service = "chatbot" => (~hasTools /\ ~debug_mode)
    /\ LET c == SessionCatalog(hasTools)
       IN /\ tool_registry = c.tool_registry
          /\ mcp_registry = c.mcp_registry
          /\ mgr_servers = c.mgr_servers
          /\ mgr_client = c.mgr_client
          /\ agent_tools = c.agent_tools
          /\ tool_node = c.tool_node
          /\ app = IF service = "agent" THEN CreateWorkflow(c.tool_node)
                   ELSE NoApp
          /\ last_init = c.last_init
    /\ warnings = {}
    /\ conv = <<>>
    /\ pc = "idle"
    /\ mode = "invoke"
    /\ st = EmptyState
    /\ step = 0
    /\ events = <<>>
    /\ tools_displayed = FALSE
    /\ final_response_started = FALSE
    /\ result = NoResult
    /\ trace = <<>>
    /\ routed = "none"
    /\ llm = <<>>
    /\ pre = <<>>
    /\ executions = <<>>

Init == TurnReady /\ OuterIdle

(* AgentService.chat / chat_stream_with_workflow are entered: the initial  *)
(* state is built from the session history and handed to the graph.        *)
StartTurn ==
    /\ service = "agent"
    /\ pc = "idle"
    /\ Len(conv) < MaxHist
    /\ \E m \in {"stream", "invoke"}, u \in UserInputs :
          /\ mode' = m
          /\ st' = ApplyUpdate(EmptyState, InitialState(conv, u))
    /\ pc' = "process_input"
    /\ step' = 0
    /\ events' = <<>>
    /\ tools_displayed' = FALSE
    /\ final_response_started' = FALSE
    /\ result' = NoResult
    /\ trace' = <<>>
    /\ routed' = "none"
    /\ llm' = <<>>
    /\ pre' = conv
    /\ executions' = <<>>
    /\ UNCHANGED <<outerVars, catalogVars, service, hasTools, debug_mode, conv>>

CanRun(node) == pc = node /\ step < RecursionLimit

ProcessInputNode ==
    /\ CanRun("process_input")
    /\ LET update == ProcessInput(st.messages, st.user_input)
           new == ApplyUpdate(st, update)
       IN /\ st' = new
          /\ pc' = NextNode("process_input", hasTools, new)
    /\ step' = step + 1
    /\ trace' = Append(trace, "process_input")
    /\ UNCHANGED <<outerVars, catalogVars, service, hasTools, debug_mode, conv, mode, events,
                   tools_displayed, final_response_started, result, routed,
                   llm, pre, executions>>

GenerateResponseNode ==
    /\ CanRun("generate_response")
    /\ \E outcome \in LLMOutcomes(hasTools, llm) :
          LET update == GenerateResponse(st.messages, outcome)
              new == ApplyUpdate(st, update)
              h == OnGenerateResponse(debug_mode, update, tools_displayed,
                                      final_response_started)
          IN /\ st' = new
             /\ pc' = NextNode("generate_response", hasTools, new)
             /\ routed' = IF hasTools THEN ShouldCallTools(new.messages)
                          ELSE "none"
             /\ llm' = Append(llm, outcome)
             /\ IF mode = "stream"
                THEN /\ events' = events \o h.events
                     /\ tools_displayed' = h.tools_displayed
                     /\ final_response_started' = h.final_response_started
                ELSE UNCHANGED <<events, tools_displayed,
                                 final_response_started>>
    /\ step' = step + 1
    /\ trace' = Append(trace, "generate_response")
    /\ UNCHANGED <<outerVars, catalogVars, service, hasTools, debug_mode, conv, mode, result, pre,
                   executions>>

CallToolsNode ==
    /\ CanRun("call_tools")
    /\ executions' \in Interleavings(Last(st.messages).tool_calls)
    /\ LET update == ToolNode(st.messages)
           new == ApplyUpdate(st, update)
       IN /\ st' = new
          /\ pc' = NextNode("call_tools", hasTools, new)
          /\ events' = IF mode = "stream"
                       THEN events \o OnCallTools(debug_mode, update)
                       ELSE events
    /\ step' = step + 1
    /\ trace' = Append(trace, "call_tools")
    /\ UNCHANGED <<outerVars, catalogVars, service, hasTools, debug_mode, conv, mode,
                   tools_displayed, final_response_started, result, routed,
                   llm, pre>>

(* format_output is the last node: the graph reaches END after it.  chat() *)
(* then stores result["messages"] and returns; the stream handles the      *)
(* format_output chunk and ends.                                           *)
FormatOutputNode ==
    /\ CanRun("format_output")
    /\ LET update == FormatOutput(st)
           new == ApplyUpdate(st, update)
           h == OnFormatOutput(debug_mode, update)
       IN /\ st' = new
          /\ NextNode("format_output", hasTools, new) = "END"
          /\ IF mode = "invoke"
             THEN /\ conv' = new.messages
                  /\ result' = Result("returned", "none", new.ai_response,
                                      new.tool_calls)
                  /\ events' = events
             ELSE /\ conv' = IF h.complete THEN h.messages ELSE conv
                  /\ result' = Result(IF h.complete THEN "complete"
                                      ELSE "exhausted",
                                      "none", h.final_response, <<>>)
                  /\ events' = events \o h.events
    /\ pc' = "idle"
    /\ step' = step + 1
    /\ trace' = Append(trace, "format_output")
    /\ UNCHANGED <<outerVars, catalogVars, service, hasTools, debug_mode, mode, tools_displayed,
                   final_response_started, routed, llm, pre, executions>>

\* An exception leaves the graph: the except clause of the entry point runs.
Abort(cause) ==
    /\ IF mode = "invoke"
       THEN /\ result' = ChatOnException(cause)
            /\ events' = events
       ELSE /\ result' = StreamOnException(cause).result
            /\ events' = events \o StreamOnException(cause).events
    /\ pc' = "idle"
    /\ UNCHANGED <<outerVars, catalogVars, service, hasTools, debug_mode, conv, mode, st, step,
                   tools_displayed, final_response_started, trace, routed,
                   llm, pre, executions>>

(* GraphRecursionError: the graph has run RecursionLimit supersteps and    *)
(* another node is due.                                                    *)
RecursionAbort ==
    /\ pc \in Nodes
    /\ step >= RecursionLimit
    /\ Abort("recursion")

\* Any other exception that a node or the runtime raises during the turn.
RuntimeFailure ==
    /\ pc \in Nodes
    /\ step < RecursionLimit
    /\ Abort("fault")

----------------------------------------------------------------------------
(* ChatbotService (src/my_mcp/service.py): no tools.  chat() runs the      *)
(* graph process_input -> generate_response -> format_output; chat_stream  *)
(* works on the history list directly.  A turn is one step of the model.   *)

ChatbotOutcomes == {LLMFailure} \cup TextResponses

ChatbotProcessInput(messages, user_input) ==
    LET withSystem == IF messages = <<>>
                      THEN <<SystemMessage(SystemPrompt)>>
                      ELSE messages
    IN [messages |-> Append(withSystem, HumanMessage(user_input)),
        user_input |-> user_input]

ChatbotGenerateResponse(messages, outcome) ==
    IF outcome.fail
    THEN [messages |-> Append(messages, AIMessage(ApologyGenerate, <<>>, <<>>)),
          ai_response |-> ApologyGenerate]
    ELSE [messages |-> Append(messages, AIMessage(outcome.content, <<>>, <<>>)),
          ai_response |-> outcome.content]

ChatbotFormatOutput(state) == [ai_response |-> Strip(state.ai_response)]

\* the final state of the graph that ChatbotService.chat invokes
ChatbotWorkflow(messages, user_input, outcome) ==
    LET s0 == ApplyUpdate(EmptyState, InitialState(messages, user_input))
        s1 == ApplyUpdate(s0, ChatbotProcessInput(s0.messages, s0.user_input))
        s2 == ApplyUpdate(s1, ChatbotGenerateResponse(s1.messages, outcome))
    IN ApplyUpdate(s2, ChatbotFormatOutput(s2))

(* chat_stream appends to the list it got from the conversation state: the *)
(* System and User messages are in the session history as soon as they are *)
(* appended, the Assistant message only when the LLM stream has ended.     *)
ChatbotStreamMessages(messages, user_input, outcome) ==
    LET withSystem == IF messages = <<>>
                      THEN <<SystemMessage(SystemPrompt)>>
                      ELSE messages
        asked == Append(withSystem, HumanMessage(user_input))
    IN IF outcome.fail THEN asked
       ELSE Append(asked, AIMessage(outcome.content, <<>>, <<>>))

ChatbotTurn(m, newConv, newResult, newEvents, newSt) ==
    /\ mode' = m
    /\ conv' = newConv
    /\ result' = newResult
    /\ events' = newEvents
    /\ st' = newSt
    /\ pre' = conv
    /\ pc' = "idle"
    /\ step' = 0
    /\ trace' = <<>>
    /\ routed' = "none"
    /\ llm' = <<>>
    /\ executions' = <<>>
    /\ UNCHANGED <<outerVars, catalogVars, service, hasTools, debug_mode, tools_displayed,
                   final_response_started>>

ChatbotChat ==
    /\ service = "chatbot"
    /\ pc = "idle"
    /\ Len(conv) < MaxHist
    /\ \E u \in UserInputs, outcome \in ChatbotOutcomes, raised \in BOOLEAN :
          LET final == ChatbotWorkflow(conv, u, outcome)
          IN IF raised
             THEN ChatbotTurn("invoke", conv, ChatOnException("fault"), <<>>,
                              EmptyState)
             ELSE ChatbotTurn("invoke", final.messages,
                              Result("returned", "none", final.ai_response, <<>>),
                              <<>>, final)

ChatbotChatStream ==
    /\ service = "chatbot"
    /\ pc = "idle"
    /\ Len(conv) < MaxHist
    /\ \E u \in UserInputs, outcome \in ChatbotOutcomes :
          LET messages == ChatbotStreamMessages(conv, u, outcome)
          IN IF outcome.fail
             THEN ChatbotTurn("stream", messages,
                              Result("error", "fault", ApologyProcess, <<>>),
                              <<Event("text", ApologyProcess, <<>>, <<>>)>>,
                              EmptyState)
             ELSE ChatbotTurn("stream", messages,
                              Result("complete", "none", outcome.content, <<>>),
                              IF outcome.content # <<>>
                              THEN <<Event("text", outcome.content, <<>>, <<>>)>>
                              ELSE <<>>,
                              EmptyState)

Next ==
    \/ StartTurn
    \/ ProcessInputNode
    \/ GenerateResponseNode
    \/ CallToolsNode
    \/ FormatOutputNode
    \/ RecursionAbort
    \/ RuntimeFailure
    \/ ChatbotChat
    \/ ChatbotChatStream

Spec == Init /\ [][Next]_vars

----------------------------------------------------------------------------
(* Start-up: the tool registry, the configured servers, the connection to  *)
(* them and the catalog AgentService builds from both.  No turn runs here. *)

StartUp ==
    /\ service = "agent"
    /\ hasTools = FALSE
    /\ debug_mode = FALSE
    /\ conv = <<>>
    /\ pc = "idle"
    /\ mode = "invoke"
    /\ st = EmptyState
    /\ step = 0
    /\ events = <<>>
    /\ tools_displayed = FALSE
    /\ final_response_started = FALSE
    /\ result = NoResult
    /\ trace = <<>>
    /\ routed = "none"
    /\ llm = <<>>
    /\ pre = <<>>
    /\ executions = <<>>
    /\ tool_registry = DefaultRegistry
    /\ mcp_registry = <<>>
    /\ mgr_servers = <<>>
    /\ mgr_client = None
    /\ agent_tools = <<>>
    /\ tool_node = None
    /\ app = NoApp
    /\ last_init = NeverInitialized
    /\ warnings = {}

CatalogInit == StartUp /\ OuterIdle

\* ToolRegistry.disable_tool / enable_tool, before a command uses the tools
DisableTool ==
    /\ app = NoApp
    /\ \E i \in 1..Len(tool_registry) :
          tool_registry' = SetStatus(tool_registry, tool_registry[i].name, FALSE)
    /\ UNCHANGED <<outerVars, service, hasTools, debug_mode, turnVars, mcp_registry,
                   mgr_servers, mgr_client, agent_tools, tool_node, app,
                   last_init, warnings>>

EnableTool ==
    /\ app = NoApp
    /\ \E i \in 1..Len(tool_registry) :
          tool_registry' = SetStatus(tool_registry, tool_registry[i].name, TRUE)
    /\ UNCHANGED <<outerVars, service, hasTools, debug_mode, turnVars, mcp_registry,
                   mgr_servers, mgr_client, agent_tools, tool_node, app,
                   last_init, warnings>>

\* InfoCommand.execute loads the configured servers into the registry
LoadConfig ==
    /\ app = NoApp
    /\ mcp_registry = <<>>
    /\ \E config \in Configs \ {<<>>} :
          /\ mcp_registry' = LoadFromConfig(mcp_registry, config)
          /\ warnings' = warnings \cup LoadWarnings(mcp_registry, config)
    /\ UNCHANGED <<outerVars, service, hasTools, debug_mode, turnVars, tool_registry,
                   mgr_servers, mgr_client, agent_tools, tool_node, app,
                   last_init>>

(* AgentService.__init__: _initialize_mcp_servers (nothing without a       *)
(* configuration), then the enabled local tools, the tool node and the     *)
(* workflow.  A process runs one command: the registry is still empty.     *)
AgentInit ==
    /\ app = NoApp
    /\ mcp_registry = <<>>
    /\ \E config \in Configs :
          LET loaded == IF config = <<>> THEN mcp_registry
                        ELSE LoadFromConfig(mcp_registry, config)
          IN /\ mcp_registry' = loaded
             /\ mgr_servers' = IF config = <<>> THEN mgr_servers
                               ELSE GetEnabledServers(loaded)
             /\ warnings' = IF config = <<>> THEN warnings
                            ELSE warnings \cup LoadWarnings(mcp_registry, config)
    /\ LET tools == GetEnabledTools(tool_registry)
       IN /\ agent_tools' = tools
          /\ tool_node' = ToolNodeOf(tools)
          /\ app' = CreateWorkflow(ToolNodeOf(tools))
          /\ hasTools' = (ToolNodeOf(tools) # None)
    /\ UNCHANGED <<outerVars, service, debug_mode, turnVars, tool_registry, mgr_client,
                   last_init>>

\* MCPClientManager.set_servers
SetServers ==
    /\ \E servers \in ServerLists : mgr_servers' = servers
    /\ UNCHANGED <<outerVars, service, hasTools, debug_mode, turnVars, tool_registry,
                   mcp_registry, mgr_client, agent_tools, tool_node, app,
                   last_init, warnings>>

\* what one initialize() of the manager leaves, up being the servers whose
\* discovery succeeds
InitializeWith(servers, up) ==
    LET r == ManagerInitialize(servers, mgr_client, up)
    IN /\ mgr_client' = r.client
       /\ last_init' = [called |-> TRUE,
                        reached |-> {servers[i] : i \in 1..Len(servers)} \cap up,
                        ok |-> r.ok]
       /\ warnings' = warnings \cup r.warnings

\* MCPClientManager.initialize
Initialize ==
    /\ \E up \in SUBSET Servers : InitializeWith(mgr_servers, up)
    /\ UNCHANGED <<outerVars, service, hasTools, debug_mode, turnVars, tool_registry,
                   mcp_registry, mgr_servers, agent_tools, tool_node, app>>

\* AgentService.connect_mcp_servers
ConnectMcpServers ==
    /\ app # NoApp
    /\ Len(agent_tools) < MaxCatalog
    /\ \E up \in SUBSET Servers :
          /\ InitializeWith(mgr_servers, up)
          /\ LET r == ManagerInitialize(mgr_servers, mgr_client, up)
                 new == IF r.ok
                        THEN IntegrateMcpTools(agent_tools, tool_node, app,
                                               GetTools(r.client))
                        ELSE [tools |-> agent_tools, tool_node |-> tool_node,
                              app |-> app]
             IN /\ agent_tools' = new.tools
                /\ tool_node' = new.tool_node
                /\ app' = new.app
                /\ hasTools' = (new.tool_node # None)
    /\ UNCHANGED <<outerVars, service, debug_mode, turnVars, tool_registry, mcp_registry,
                   mgr_servers>>

(* InfoCommand._test_mcp_connections: the enabled servers are handed to    *)
(* the manager and initialized; every one of them is then marked with the  *)
(* result of the whole initialization, and after a success gets the tools  *)
(* that get_tool_info puts down to it.                                     *)
MarkServers(registry, ok, info) ==
    [i \in 1..Len(registry) |->
        IF registry[i].enabled
        THEN [registry[i] EXCEPT
                 !.connected = ok,
                 !.last_error = IF ok THEN None ELSE <<"connection failed">>,
                 !.tools = IF ok
                           THEN {t.name : t \in {u \in info :
                                                    u.server = registry[i].name}}
                           ELSE @]
        ELSE registry[i]]

TestMcpConnections ==
    /\ app = NoApp
    /\ GetEnabledServers(mcp_registry) # <<>>
    /\ mgr_servers' = GetEnabledServers(mcp_registry)
    /\ \E up \in SUBSET Servers :
          /\ InitializeWith(GetEnabledServers(mcp_registry), up)
          /\ LET r == ManagerInitialize(GetEnabledServers(mcp_registry),
                                        mgr_client, up)
             IN mcp_registry' = MarkServers(mcp_registry, r.ok,
                                            GetToolInfo(r.client))
    /\ UNCHANGED <<outerVars, service, hasTools, debug_mode, turnVars, tool_registry,
                   agent_tools, tool_node, app>>

CatalogNext ==
    \/ DisableTool
    \/ EnableTool
    \/ LoadConfig
    \/ AgentInit
    \/ SetServers
    \/ Initialize
    \/ ConnectMcpServers
    \/ TestMcpConnections

CatalogSpec == CatalogInit /\ [][CatalogNext]_vars

----------------------------------------------------------------------------
(* Configuration: a list of server entries is loaded into the registry,    *)
(* by the info command through get_mcp_servers or by AgentService from the *)
(* list it was constructed with.                                           *)

ConfigInit ==
    /\ StartUp
    /\ settings \in RawSettings
    /\ config_log = NotConfigured
    /\ last_register = NoRegister
    /\ SessionIdle
    /\ FormatIdle
    /\ ExportIdle
    /\ ToolsIdle

\* InfoCommand.execute: get_mcp_servers(), then load_from_config of what
\* it returned unless that is empty
InfoLoadServers ==
    /\ config_log.by = "none"
    /\ LET read == GetMcpServers(settings)
       IN /\ mcp_registry' = LoadFromConfig(mcp_registry, read.valid)
          /\ config_log' = [by |-> "info",
                            lines |-> read.log
                                      \o LoadLog(mcp_registry, read.valid)]
          /\ warnings' = warnings \cup LoadWarnings(mcp_registry, read.valid)
                          \cup (IF read.log # <<>> THEN {"server_left_out"}
                                ELSE {})
    /\ UNCHANGED <<service, hasTools, debug_mode, turnVars, tool_registry,
                   mgr_servers, mgr_client, agent_tools, tool_node, app,
                   last_init, settings, last_register, sessionVars,
                   formatVars, exported, toolVars>>

\* AgentService._initialize_mcp_servers with the list it was given
InitializeMcpServers ==
    /\ config_log.by = "none"
    /\ LET loaded == LoadFromConfig(mcp_registry, settings)
       IN /\ mcp_registry' = IF settings = <<>> THEN mcp_registry ELSE loaded
          /\ mgr_servers' = IF settings = <<>> THEN mgr_servers
                            ELSE GetEnabledServers(loaded)
          /\ config_log' = [by |-> "agent",
                            lines |-> LoadLog(mcp_registry, settings)]
          /\ warnings' = warnings \cup LoadWarnings(mcp_registry, settings)
    /\ UNCHANGED <<service, hasTools, debug_mode, turnVars, tool_registry,
                   mgr_client, agent_tools, tool_node, app, last_init,
                   settings, last_register, sessionVars, formatVars,
                   exported, toolVars>>

ConfigNext == InfoLoadServers \/ InitializeMcpServers

ConfigSpec == ConfigInit /\ [][ConfigNext]_vars

----------------------------------------------------------------------------
(* The tool registry: tools are registered, enabled and disabled.          *)

ToolObjects == {"builtin", "other"}

CallRegisterTool ==
    /\ \E name \in Catalog, tool \in ToolObjects, enabled \in BOOLEAN :
          LET r == RegisterTool(tool_registry, name, tool, enabled)
          IN /\ tool_registry' = r.registry
             /\ last_register' = [called |-> TRUE, name |-> name,
                                  tool |-> tool, enabled |-> enabled,
                                  before |-> tool_registry,
                                  after |-> r.registry, raised |-> r.raised]
    /\ UNCHANGED <<service, hasTools, debug_mode, turnVars, mcp_registry,
                   mgr_servers, mgr_client, agent_tools, tool_node, app,
                   last_init, warnings, settings, config_log, sessionVars,
                   formatVars, exported, toolVars>>

ToolRegistryNext == CallRegisterTool \/ DisableTool \/ EnableTool

ToolRegistrySpec == CatalogInit /\ [][ToolRegistryNext]_vars

\* the names a caller may pass: registered ones and others
ToolNames == Catalog \cup {"X"}

ToggleFrame ==
    UNCHANGED <<service, hasTools, debug_mode, turnVars, mcp_registry,
                mgr_servers, mgr_client, agent_tools, tool_node, app,
                last_init, warnings, setupVars, sessionVars, formatVars,
                exported, time_call>>

\* enable_tool(name) is called
CallEnableTool ==
    /\ \E name \in ToolNames :
          LET r == ToggleTool(tool_registry, name, TRUE)
          IN /\ tool_registry' = r.registry
             /\ last_toggle' = [called |-> TRUE, name |-> name,
                                enabled |-> TRUE, before |-> tool_registry,
                                after |-> r.registry,
                                returned |-> r.returned]
    /\ ToggleFrame

\* disable_tool(name) is called
CallDisableTool ==
    /\ \E name \in ToolNames :
          LET r == ToggleTool(tool_registry, name, FALSE)
          IN /\ tool_registry' = r.registry
             /\ last_toggle' = [called |-> TRUE, name |-> name,
                                enabled |-> FALSE, before |-> tool_registry,
                                after |-> r.registry,
                                returned |-> r.returned]
    /\ ToggleFrame

\* a tool is registered; what the probe of C22 records is not kept here
RegisterSome ==
    /\ \E name \in Catalog, tool \in ToolObjects, enabled \in BOOLEAN :
          tool_registry' = RegisterTool(tool_registry, name, tool,
                                        enabled).registry
    /\ UNCHANGED last_toggle
    /\ ToggleFrame

RegistryOpsNext == RegisterSome \/ CallEnableTool \/ CallDisableTool

RegistryOpsSpec == CatalogInit /\ [][RegistryOpsNext]_vars

----------------------------------------------------------------------------
(* Continuous mode: the loop that reads an input, runs a turn for it and   *)
(* reads the next.  service = "agent" is ChatCommand.execute_continuous,   *)
(* service = "chatbot" the loop of the chat command in main.py.  A turn is *)
(* one step here: the LLM answers with text or fails.                      *)

ByeCommand == <<"/", "b", "y", "e">>

LowerChar(c) ==
    CASE c = "B" -> "b" [] c = "Y" -> "y" [] c = "E" -> "e" [] OTHER -> c

Lower(text) == [i \in 1..Len(text) |-> LowerChar(text[i])]

\* a comparison with the sentinel that neither trims nor folds the case
IsByeExact(line) == line = ByeCommand
\* user_input.strip().lower() == "/bye"
IsBye(line) == Lower(Strip(line)) = ByeCommand

\* a test for the empty string only
IsBlankExact(line) == line = <<>>
\* not user_input.strip()
IsBlank(line) == Strip(line) = <<>>

\* the lines an input source may hold, without their line ends
Lines == UserInputs \cup {<<>>, <<" ">>}
         \cup {ByeCommand, <<" ", "/", "B", "Y", "E">>}
MaxLines == 3
Scripts == UNION {[1..n -> Lines] : n \in 0..MaxLines}

TurnOutcomes == {LLMFailure, Response(<<"a">>, <<>>, <<>>)}

(* _process_message, streaming: the text chunks are concatenated, a        *)
(* streaming_complete chunk gives its final_response to an answer that is  *)
(* still empty and ends the iteration, an error chunk replaces the answer  *)
(* and ends the iteration.                                                 *)
RECURSIVE CollectResponse(_, _)
CollectResponse(chunks, ai_response) ==
    IF chunks = <<>> THEN ai_response
    ELSE LET chunk == Head(chunks)
         IN CASE chunk.type = "text" ->
                     CollectResponse(Tail(chunks), ai_response \o chunk.text)
              [] chunk.type = "streaming_complete" ->
                     IF chunk.text # <<>> /\ ai_response = <<>>
                     THEN chunk.text ELSE ai_response
              [] chunk.type = "error" -> chunk.text
              [] OTHER -> CollectResponse(Tail(chunks), ai_response)

\* one turn of AgentService in which the LLM calls no tool
AgentTextTurn(messages, user_input, outcome, stream) ==
    LET s0 == ApplyUpdate(EmptyState, InitialState(messages, user_input))
        s1 == ApplyUpdate(s0, ProcessInput(s0.messages, s0.user_input))
        u2 == GenerateResponse(s1.messages, outcome)
        s2 == ApplyUpdate(s1, u2)
        u3 == FormatOutput(s2)
        s3 == ApplyUpdate(s2, u3)
        h2 == OnGenerateResponse(FALSE, u2, FALSE, FALSE)
        h3 == OnFormatOutput(FALSE, u3)
    IN IF stream
       THEN [messages |-> IF h3.complete THEN h3.messages ELSE messages,
             events |-> h2.events \o h3.events,
             ai_response |-> CollectResponse(h2.events \o h3.events, <<>>)]
       ELSE [messages |-> s3.messages, events |-> <<>>,
             ai_response |-> s3.ai_response]

\* one turn of ChatbotService as the loop of main.py runs it
ChatbotTextTurn(messages, user_input, outcome, stream) ==
    IF stream
    THEN [messages |-> ChatbotStreamMessages(messages, user_input, outcome),
          events |-> <<>>,
          ai_response |-> IF outcome.fail THEN ApologyProcess
                          ELSE outcome.content]
    ELSE LET final == ChatbotWorkflow(messages, user_input, outcome)
         IN [messages |-> final.messages, events |-> <<>>,
             ai_response |-> final.ai_response]

ProcessMessage(svc, messages, user_input, outcome, stream) ==
    IF svc = "agent"
    THEN AgentTextTurn(messages, user_input, outcome, stream)
    ELSE ChatbotTextTurn(messages, user_input, outcome, stream)

\* a log that gets the user's half of the turn only
TranscribeUserOnly(log, user_input, ai_response) ==
    Append(log, <<"user", user_input>>)
\* the two entries that a turn adds to conversation_log
Transcribe(log, user_input, ai_response) ==
    log \o <<<<"user", user_input>>, <<"ai", ai_response>>>>

\* an except clause that ends the session
OnTurnExceptionBreak == [loop |-> "exited", reported |-> TRUE]
\* except Exception in the loop: the error is printed, the loop goes on
OnTurnException == [loop |-> "running", reported |-> TRUE]

\* after the loop: save_conversation_to_markdown when there is a log
SaveOnExit(log) == IF save /\ log # <<>> THEN log ELSE transcript

\* _get_user_input on a pipe prints the line back; a terminal and
\* console.input (main.py) do not
Echo(line) ==
    IF service = "agent" /\ ~is_tty THEN Append(echoed, line) ELSE echoed

\* the command has its service; the loop is not entered yet
SessionInit ==
    /\ TurnReady
    /\ ~hasTools
    /\ ~debug_mode
    /\ OuterIdle

\* what no step of the session changes
CommandFrame ==
    UNCHANGED <<setupVars, formatVars, exported, toolVars, catalogVars,
                service, hasTools,
                debug_mode, pc,
                mode, st, step, tools_displayed, final_response_started,
                result, trace, routed, pre, executions>>

\* what no step of the loop changes
SessionFrame == CommandFrame /\ UNCHANGED <<is_tty, save, streaming>>

(* The loop is entered: the options of the command and the input source    *)
(* are what they are from here on; the log and the history are empty.      *)
EnterLoop ==
    /\ loop = "idle"
    /\ stdin' \in Scripts
    /\ is_tty' \in BOOLEAN
    /\ save' \in BOOLEAN
    /\ streaming' \in BOOLEAN
    /\ loop' = "running"
    /\ conversation_log' = <<>>
    /\ conv' = <<>>
    /\ UNCHANGED <<llm, events, turns, reports, ended_by, consumed, echoed,
                   transcript>>
    /\ CommandFrame

Take(line) ==
    /\ stdin' = Tail(stdin)
    /\ consumed' = Append(consumed, line)
    /\ echoed' = Echo(line)

\* the input is "/bye": the loop is left, then the log is saved
ReadBye ==
    /\ loop = "running"
    /\ stdin # <<>>
    /\ IsBye(Head(stdin))
    /\ Take(Head(stdin))
    /\ loop' = "exited"
    /\ ended_by' = "bye"
    /\ transcript' = SaveOnExit(conversation_log)
    /\ UNCHANGED <<conv, llm, events, turns, conversation_log, reports>>
    /\ SessionFrame

\* the input is empty: continue
ReadEmpty ==
    /\ loop = "running"
    /\ stdin # <<>>
    /\ ~IsBye(Head(stdin))
    /\ IsBlank(Head(stdin))
    /\ Take(Head(stdin))
    /\ UNCHANGED <<conv, llm, events, turns, conversation_log, reports,
                   loop, ended_by, transcript>>
    /\ SessionFrame

CanTurn == loop = "running" /\ stdin # <<>> /\ ~IsBye(Head(stdin))
           /\ ~IsBlank(Head(stdin))

\* _process_message returns the answer; with --save the turn is logged
RunTurn ==
    /\ CanTurn
    /\ Take(Head(stdin))
    /\ \E outcome \in TurnOutcomes :
          LET t == ProcessMessage(service, conv, Head(stdin), outcome,
                                  streaming)
          IN /\ conv' = t.messages
             /\ llm' = <<outcome>>
             /\ events' = t.events
             /\ turns' = Append(turns, [input |-> Head(stdin),
                                        ended |-> "answered",
                                        response |-> t.ai_response])
             /\ conversation_log' =
                    IF save THEN Transcribe(conversation_log, Head(stdin),
                                            t.ai_response)
                    ELSE conversation_log
    /\ UNCHANGED <<reports, loop, ended_by, transcript>>
    /\ SessionFrame

(* An exception leaves the turn (the display of the answer fails, say),    *)
(* before or after the service has answered: except Exception prints it.   *)
TurnRaises ==
    /\ CanTurn
    /\ Take(Head(stdin))
    /\ \E outcome \in TurnOutcomes, answered \in BOOLEAN :
          LET t == ProcessMessage(service, conv, Head(stdin), outcome,
                                  streaming)
          IN /\ conv' = IF answered THEN t.messages ELSE conv
             /\ llm' = IF answered THEN <<outcome>> ELSE <<>>
             /\ events' = <<>>
    /\ turns' = Append(turns, [input |-> Head(stdin), ended |-> "raised",
                               response |-> <<>>])
    /\ reports' = Append(reports, "turn")
    /\ loop' = OnTurnException.loop
    /\ ended_by' = IF OnTurnException.loop = "exited" THEN "exception"
                   ELSE ended_by
    /\ UNCHANGED <<conversation_log, transcript>>
    /\ SessionFrame

\* KeyboardInterrupt while the turn runs: the loop is left, the log saved
InterruptTurn ==
    /\ CanTurn
    /\ Take(Head(stdin))
    /\ turns' = Append(turns, [input |-> Head(stdin),
                               ended |-> "interrupted", response |-> <<>>])
    /\ loop' = "exited"
    /\ ended_by' = "interrupt"
    /\ transcript' = SaveOnExit(conversation_log)
    /\ UNCHANGED <<conv, llm, events, conversation_log, reports>>
    /\ SessionFrame

\* KeyboardInterrupt while the loop waits for input
InterruptInput ==
    /\ loop = "running"
    /\ loop' = "exited"
    /\ ended_by' = "interrupt"
    /\ transcript' = SaveOnExit(conversation_log)
    /\ UNCHANGED <<conv, llm, events, turns, conversation_log, reports,
                   stdin, consumed, echoed>>
    /\ SessionFrame

(* The input is at its end.  _get_user_input raises EOFError and           *)
(* execute_continuous leaves the loop on it.  console.input in main.py     *)
(* raises EOFError too, and there the only clause that catches it is       *)
(* except Exception: the error is printed and the loop reads again, with   *)
(* the same outcome every time; reports keeps the first of these errors.   *)
EndOfInput ==
    /\ loop = "running"
    /\ stdin = <<>>
    /\ IF service = "agent"
       THEN /\ loop' = "exited"
            /\ ended_by' = "eof"
            /\ transcript' = SaveOnExit(conversation_log)
            /\ UNCHANGED reports
       ELSE /\ reports' = IF reports # <<>> /\ Last(reports) = "eof"
                          THEN reports ELSE Append(reports, "eof")
            /\ UNCHANGED <<loop, ended_by, transcript>>
    /\ UNCHANGED <<conv, llm, events, turns, conversation_log, stdin,
                   consumed, echoed>>
    /\ SessionFrame

SessionNext ==
    \/ EnterLoop
    \/ ReadBye
    \/ ReadEmpty
    \/ RunTurn
    \/ TurnRaises
    \/ InterruptTurn
    \/ InterruptInput
    \/ EndOfInput

SessionSpec == SessionInit /\ [][SessionNext]_vars

(* The loop keeps running while it can: it is entered, and an iteration    *)
(* that can be made is made, whatever its outcome.  An interrupt at the    *)
(* prompt comes from outside and may never come.                           *)
Iterate ==
    \/ EnterLoop
    \/ ReadBye
    \/ ReadEmpty
    \/ EndOfInput
    \/ InterruptTurn
    \/ TurnRaises
    \/ RunTurn

SessionFairSpec == SessionSpec /\ WF_vars(Iterate)

----------------------------------------------------------------------------
(* The formatting of one answer.  The model answers with a text; the       *)
(* format_output node formats it and returns the update; the stream gets   *)
(* the update as the chunk of format_output and yields the answer.         *)

\* what an answer is put together from: letters, white space, the Markdown
\* marks, and a bold run
Fragments ==
    {<<"a">>, <<" ">>, <<"\n">>, <<"#">>, <<"-">>, <<"*">>, <<Backquote>>,
     <<"*", "*", "a", "*", "*">>}

MaxFragments == 4

RECURSIVE Flatten(_)
Flatten(seqs) ==
    IF seqs = <<>> THEN <<>> ELSE Head(seqs) \o Flatten(Tail(seqs))

AnswerTexts ==
    {Flatten(fs) : fs \in UNION {[1..n -> Fragments] : n \in 0..MaxFragments}}

FormatInit ==
    /\ TurnReady
    /\ service = "agent"
    /\ ~hasTools
    /\ SetupIdle
    /\ SessionIdle
    /\ ExportIdle
    /\ ToolsIdle
    /\ answer \in AnswerTexts
    /\ format_pc = "generated"
    /\ node_state = [ai_response |-> <<>>, tool_calls |-> <<>>]
    /\ stream_end = NoStream

FormatFrame ==
    UNCHANGED <<setupVars, sessionVars, exported, toolVars, catalogVars,
                turnVars,
                service, hasTools, debug_mode, answer>>

\* the node: _format_output on a state whose ai_response is the answer
FormatAnswer ==
    /\ format_pc = "generated"
    /\ node_state' = FormatOutput([ai_response |-> answer, tool_calls |-> <<>>])
    /\ format_pc' = "formatted"
    /\ UNCHANGED stream_end
    /\ FormatFrame

\* the stream: the format_output branch of chat_stream_with_workflow
StreamAnswer ==
    /\ format_pc = "formatted"
    /\ stream_end' = OnFormatOutput(debug_mode, node_state)
    /\ format_pc' = "streamed"
    /\ UNCHANGED node_state
    /\ FormatFrame

FormatNext == FormatAnswer \/ StreamAnswer

FormatSpec == FormatInit /\ [][FormatNext]_vars

----------------------------------------------------------------------------
(* The export command: the service is constructed and, with servers        *)
(* configured, connected; the graph of its workflow and the list of tools  *)
(* are extracted and written in the format asked for.                      *)

(* _extract_graph_structure: the nodes and the edges of app.get_graph(),   *)
(* conditional edges among them, and as tools every tool of the registry,  *)
(* enabled or not, and every tool of the manager's client.                 *)
ExtractGraphStructure(workflow, registry, client) ==
    [nodes |-> workflow.nodes \cup {"__start__", "__end__"},
     edges |-> workflow.edges \cup workflow.conditional,
     tools |-> {[name |-> registry[i].name, type |-> "basic",
                 server |-> "none"] : i \in 1..Len(registry)}
               \cup {[name |-> t.name, type |-> "mcp", server |-> t.server] :
                        t \in GetToolInfo(client)}]

\* _export_json: the graph_data that is dumped
ExportJson(nodes, edges, tools) ==
    [nodes |-> {[id |-> n, type |-> "node", label |-> n] : n \in nodes},
     edges |-> {[source |-> e[1], target |-> e[2]] : e \in edges},
     tools |-> {[name |-> t.name, type |-> "tool"] : t \in tools}]

(* generate_mermaid_diagram: a definition line for every node and for      *)
(* every tool, an arrow line for every edge and, with call_tools among the *)
(* nodes, for every tool an arrow to it from call_tools.                   *)
GenerateMermaidDiagram(nodes, edges, tools) ==
    [definitions |->
        {[id |-> n,
          shape |-> IF n \in {"__start__", "__end__"} THEN "stadium"
                    ELSE "box",
          label |-> <<n>>] : n \in nodes}
        \cup {[id |-> t.name, shape |-> "box",
               label |-> IF t.type = "mcp" THEN <<t.name, t.server>>
                         ELSE <<t.name>>] : t \in tools},
     arrows |->
        {[source |-> e[1], target |-> e[2]] : e \in edges}
        \cup (IF tools # {} /\ "call_tools" \in nodes
              THEN {[source |-> "call_tools", target |-> t.name] : t \in tools}
              ELSE {})]

\* what a reader of the file finds as the nodes and the edges of the graph
JsonNodes(file) == {n.id : n \in file.nodes}
JsonEdges(file) == {<<e.source, e.target>> : e \in file.edges}
MermaidNodes(file) == {d.id : d \in file.definitions}
MermaidEdges(file) == {<<a.source, a.target>> : a \in file.arrows}

\* the service has been created and, with servers configured, connected
ReadyToExport ==
    /\ app # NoApp
    /\ mgr_servers # <<>> => last_init.called

ExportFrame ==
    UNCHANGED <<setupVars, sessionVars, formatVars, toolVars, catalogVars,
                turnVars, service, hasTools, debug_mode>>

\* ExportCommand.execute with format "json"
ExportAsJson ==
    /\ ReadyToExport
    /\ ~exported.json.written
    /\ LET g == ExtractGraphStructure(app, tool_registry, mgr_client)
       IN exported' = [exported EXCEPT !.json =
                          [written |-> TRUE, graph |-> app, tools |-> g.tools,
                           content |-> ExportJson(g.nodes, g.edges, g.tools)]]
    /\ ExportFrame

\* ExportCommand.execute with format "mermaid"
ExportAsMermaid ==
    /\ ReadyToExport
    /\ ~exported.mermaid.written
    /\ LET g == ExtractGraphStructure(app, tool_registry, mgr_client)
       IN exported' = [exported EXCEPT !.mermaid =
                          [written |-> TRUE, graph |-> app, tools |-> g.tools,
                           content |-> GenerateMermaidDiagram(g.nodes, g.edges,
                                                              g.tools)]]
    /\ ExportFrame

ExportNext ==
    \/ DisableTool
    \/ EnableTool
    \/ AgentInit
    \/ ConnectMcpServers
    \/ ExportAsJson
    \/ ExportAsMermaid

ExportSpec == CatalogInit /\ [][ExportNext]_vars

----------------------------------------------------------------------------
(* The built-in tool get_current_time(format_type, timezone).  An argument *)
(* is a string or None; the clock is read once per call.                   *)

\* None as the value of an argument
NoneArg == "None"

AllowedFormats == {"datetime", "date", "time", "iso"}
AllowedTimezones == {"utc", "local"}

\* what a caller may pass: nothing, the empty string, the allowed values,
\* and values that are not allowed
FormatArgs == {NoneArg, ""} \cup AllowedFormats \cup {"DATE", "rm -rf /"}
TimezoneArgs == {NoneArg, ""} \cup AllowedTimezones \cup {"UTC", "kst"}

\* the truth value of an argument: None and "" are false
Truthy(arg) == arg \notin {NoneArg, ""}

MaxClock == 2

\* the instants at which the clock may be read
Instants == 0..MaxClock

\* the hours that local time is ahead of UTC
LocalOffset == 1

\* what the message of the except clause says
TimeUnavailable == <<"unavailable">>

(* get_current_time gone wrong: a value that is not allowed is an error,   *)
(* and the except clause answers for it.                                   *)
GetCurrentTimeStrict(format_type, timezone, instant) ==
    IF \/ Truthy(format_type) /\ format_type \notin AllowedFormats
       \/ Truthy(timezone) /\ timezone \notin AllowedTimezones
    THEN [raised |-> FALSE, value |-> TimeUnavailable]
    ELSE LET utc == timezone = "utc"
             now == IF utc THEN instant ELSE instant + LocalOffset
             tz_info == IF utc THEN " UTC" ELSE " (Local)"
         IN [raised |-> FALSE,
             value |->
                CASE format_type = "date" -> <<"%Y-%m-%d", now, tz_info>>
                  [] format_type = "time" -> <<"%H:%M:%S", now, tz_info>>
                  [] format_type = "iso" ->
                        <<"iso", now, IF utc THEN "+00:00" ELSE "">>
                  [] OTHER -> <<"%Y-%m-%d %H:%M:%S", now, tz_info>>]

(* get_current_time: the two arguments are checked against their lists and *)
(* replaced by the default when they are true and not listed; the clock is *)
(* read in the time zone; the reading is formatted.  The string is the     *)
(* pattern, the reading and the suffix; isoformat of an aware reading ends *)
(* with the offset.  Nothing in the body raises.                           *)
GetCurrentTime(format_type, timezone, instant) ==
    LET fmt == IF Truthy(format_type) /\ format_type \notin AllowedFormats
               THEN "datetime" ELSE format_type
        tz == IF Truthy(timezone) /\ timezone \notin AllowedTimezones
              THEN "local" ELSE timezone
        utc == tz = "utc"
        now == IF utc THEN instant ELSE instant + LocalOffset
        tz_info == IF utc THEN " UTC" ELSE " (Local)"
    IN [raised |-> FALSE,
        value |->
           CASE fmt = "date" -> <<"%Y-%m-%d", now, tz_info>>
             [] fmt = "time" -> <<"%H:%M:%S", now, tz_info>>
             [] fmt = "iso" -> <<"iso", now, IF utc THEN "+00:00" ELSE "">>
             [] OTHER -> <<"%Y-%m-%d %H:%M:%S", now, tz_info>>]

\* the tool is called
CallGetCurrentTime ==
    /\ \E format_type \in FormatArgs, timezone \in TimezoneArgs,
          instant \in Instants :
          time_call' = [called |-> TRUE, format_type |-> format_type,
                        timezone |-> timezone, instant |-> instant,
                        result |-> GetCurrentTime(format_type, timezone,
                                                  instant)]
    /\ UNCHANGED <<setupVars, sessionVars, formatVars, exported, last_toggle,
                   catalogVars, turnVars, service, hasTools, debug_mode>>

TimeToolNext == CallGetCurrentTime

TimeToolSpec == CatalogInit /\ [][TimeToolNext]_vars

----------------------------------------------------------------------------
(* generate_response on its own: the node runs once on a state whose       *)
(* messages are any history, with any answer of the LLM.                   *)

\* what a message of the history may be
PastKinds == {"user", "text", "callsA", "callsB", "tool"}

MaxPast == 5

\* the message of a kind at index i of the history; the provider's ids of
\* its tool calls name the index
PastMessage(kind, i) ==
    [CASE kind = "user" -> HumanMessage(<<"q">>)
       [] kind = "text" -> AIMessage(<<"a">>, <<>>, <<>>)
       [] kind = "callsA" -> AIMessage(<<>>, MakeCalls(<<"A">>, i), <<>>)
       [] kind = "callsB" -> AIMessage(<<>>, MakeCalls(<<"B">>, i), <<>>)
       [] OTHER -> ToolMessage(<<"r">>, <<i - 1, 1>>)
     EXCEPT !.mid = i]

Histories ==
    {[i \in DOMAIN kinds |-> PastMessage(kinds[i], i)] :
        kinds \in UNION {[1..n -> PastKinds] : n \in 0..MaxPast}}

\* the answers of the LLM: a failure, text, structured tool calls, tool
\* calls in additional_kwargs only, and both at once
ReasonOutcomes ==
    {LLMFailure, Response(<<"a">>, <<>>, <<>>), Response(<<>>, <<"A">>, <<>>),
     Response(<<"a">>, <<>>, <<"B">>), Response(<<>>, <<"A">>, <<"B">>)}

ReasonInit == TurnReady /\ service = "agent" /\ hasTools /\ ~debug_mode
              /\ OuterIdle

ReasonFrame ==
    UNCHANGED <<outerVars, catalogVars, service, hasTools, debug_mode, conv,
                mode, step, events, tools_displayed, final_response_started,
                result, routed, pre, executions>>

\* the graph has come to generate_response with some history in its state
EnterReasoning ==
    /\ pc = "idle"
    /\ trace = <<>>
    /\ \E history \in Histories :
          st' = InitialState(history, <<"q">>)
    /\ pc' = "reasoning"
    /\ trace' = <<"process_input">>
    /\ UNCHANGED llm
    /\ ReasonFrame

\* _generate_response runs and its update is merged into the state
Reason ==
    /\ pc = "reasoning"
    /\ \E outcome \in ReasonOutcomes :
          /\ st' = ApplyUpdate(st, GenerateResponse(st.messages, outcome))
          /\ llm' = <<outcome>>
    /\ pc' = "reasoned"
    /\ trace' = Append(trace, "generate_response")
    /\ ReasonFrame

ReasonNext == EnterReasoning \/ Reason

ReasonSpec == ReasonInit /\ [][ReasonNext]_vars

----------------------------------------------------------------------------
(* Properties. *)

AgentTurnOver == service = "agent" /\ pc = "idle" /\ result.kind # "none"

Count(seq, P(_)) == Cardinality({i \in 1..Len(seq) : P(seq[i])})

\* the index of the first Assistant message after index i, or Len(msgs) + 1
NextAssistant(msgs, i) ==
    IF \E j \in (i + 1)..Len(msgs) : msgs[j].role = "ai"
    THEN CHOOSE j \in (i + 1)..Len(msgs) :
             msgs[j].role = "ai"
             /\ \A k \in (i + 1)..(j - 1) : msgs[k].role # "ai"
    ELSE Len(msgs) + 1

\* the ToolResults for call id between message i and the next Assistant message
Answers(msgs, i, id) ==
    {k \in (i + 1)..(NextAssistant(msgs, i) - 1) :
        msgs[k].role = "tool" /\ msgs[k].tool_call_id = id}

ToolCallsAnswered(msgs) ==
    \A i \in 1..Len(msgs) :
        HasToolCalls(msgs[i]) =>
            \A c \in 1..Len(msgs[i].tool_calls) :
                LET n == Cardinality(Answers(msgs, i, msgs[i].tool_calls[c].id))
                IN IF i = Len(msgs) THEN n = 0 ELSE n = 1

C2_RouterIffToolCalls ==
    /\ ShouldCallTools(<<>>) = "format_output"
    /\ (hasTools /\ trace # <<>> /\ Last(trace) = "generate_response") =>
          /\ routed \in {"call_tools", "format_output"}
          /\ routed = "call_tools" <=> HasToolCalls(Last(st.messages))
          /\ routed = "call_tools" <=> (~Last(llm).fail /\ Last(llm).calls # <<>>)
          /\ Last(llm).fail =>
                (routed = "format_output"
                 /\ Last(st.messages).content = ApologyGenerate)
          /\ pc \in {routed, "idle"}

\* C2, witness: the router sends to format_output although state.tool_calls
\* holds calls (found in an earlier message), after a tool round.
C2_Witness ==
    /\ hasTools /\ trace # <<>> /\ Last(trace) = "generate_response"
    /\ Len(llm) >= 2
    /\ routed = "format_output"
    /\ st.tool_calls # <<>>

IsCallTools(node) == node = "call_tools"
IsFormatOutput(node) == node = "format_output"
IsTerminalEvent(e) == e.type \in {"streaming_complete", "error"}
IsErrorEvent(e) == e.type = "error"

(* C3: when a turn is over, and no node raised an exception of its own,    *)
(* its node sequence starts with process_input, generate_response, every   *)
(* call_tools is directly followed by generate_response, and format_output *)
(* ran exactly once, as the last node.                                     *)
C3_NodeSequence ==
    (AgentTurnOver /\ result.cause # "fault") =>
        /\ Len(trace) >= 3
        /\ trace[1] = "process_input"
        /\ trace[2] = "generate_response"
        /\ \A i \in 1..Len(trace) :
              trace[i] = "call_tools" =>
                  (i < Len(trace) /\ trace[i + 1] = "generate_response")
        /\ Count(trace, IsFormatOutput) = 1
        /\ Last(trace) = "format_output"

(* C4: in one turn call_tools runs at most K = 8 times.                    *)
C4_LoopBound == Count(trace, IsCallTools) <= 8

(* C5: a turn in which no node raised an exception of its own ends with    *)
(* the workflow at END: chat() returned the workflow's answer, or the      *)
(* stream handled the format_output chunk.                                 *)
C5_ReachesEnd ==
    (AgentTurnOver /\ result.cause # "fault") =>
        result.kind \in {"returned", "complete", "exhausted"}

(* C6: the events of a finished streaming turn hold exactly one terminal   *)
(* event (streaming_complete or error), and it is the last event.          *)
C6_OneTerminalEvent ==
    (AgentTurnOver /\ mode = "stream") =>
        /\ Count(events, IsTerminalEvent) = 1
        /\ IsTerminalEvent(Last(events))

(* C7: after a turn that completed (chat() returned the workflow's answer, *)
(* or the stream ended with streaming_complete) the session history is the *)
(* final message list of the turn, which extends the history from before.  *)
C7_HistoryKept ==
    (AgentTurnOver /\ result.kind \in {"returned", "complete"}) =>
        /\ conv = st.messages
        /\ Len(conv) > Len(pre)
        /\ SubSeq(conv, 1, Len(pre)) = pre

(* C8: the session history holds a System message at its first index or    *)
(* nowhere, in sessions of either service, after turns of either mode,     *)
(* completed or failed.                                                    *)
C8_SystemOnlyFirst ==
    \A i \in 1..Len(conv) : conv[i].role = "system" => i = 1

\* C8, witness: a history of two turns or more, its first message the only
\* System message.
C8_Witness ==
    /\ pc = "idle"
    /\ Len(conv) >= 5
    /\ conv[1].role = "system"
    /\ Cardinality({i \in 1..Len(conv) : conv[i].role = "user"}) >= 2

\* msgs from index i on is a sequence of groups; expect is what comes next:
\* <<"user">>, <<"ai">> or <<"tool", n>> (n ToolResults are due).
RECURSIVE Grouped(_, _, _)
Grouped(msgs, i, expect) ==
    IF expect[1] = "tool" /\ expect[2] = 0 THEN Grouped(msgs, i, <<"ai">>)
    ELSE IF i > Len(msgs) THEN expect = <<"user">>
    ELSE IF msgs[i].role # expect[1] THEN FALSE
    ELSE CASE expect[1] = "user" -> Grouped(msgs, i + 1, <<"ai">>)
           [] expect[1] = "tool" ->
                 Grouped(msgs, i + 1, <<"tool", expect[2] - 1>>)
           [] expect[1] = "ai" ->
                 IF msgs[i].tool_calls # <<>>
                 THEN Grouped(msgs, i + 1, <<"tool", Len(msgs[i].tool_calls)>>)
                 ELSE Grouped(msgs, i + 1, <<"user">>)

WellGrouped(msgs) ==
    Grouped(msgs,
            IF msgs # <<>> /\ msgs[1].role = "system" THEN 2 ELSE 1,
            <<"user">>)

(* C9: between turns the history after the optional System message is a    *)
(* sequence of groups: a User message, rounds of an Assistant message with *)
(* tool calls and its ToolResults, a final Assistant message.              *)
C9_GroupedHistory == pc = "idle" => WellGrouped(conv)

LLMFailed == \E i \in 1..Len(llm) : llm[i].fail
ToolFailed ==
    \E i \in 1..Len(st.messages) :
        /\ st.messages[i].role = "tool"
        /\ i > Len(pre)
        /\ st.messages[i].content[1] = "Error: "
IsApology(text) == text \in {ApologyGenerate, ApologyProcess}

IsGenerateApology(msg) ==
    msg.role = "ai" /\ msg.content = ApologyGenerate /\ msg.tool_calls = <<>>

(* C11: once the LLM call of a reasoning pass has failed, it is the last   *)
(* LLM call of the turn; the turn's part of the message list ends with the *)
(* apology Assistant message, which has no tool calls and is the only one  *)
(* the turn appended; state.tool_calls is empty; format_output is the node *)
(* that runs next, and unless a node raises an exception of its own the    *)
(* turn ends there with the apology as its answer: chat() returns it, the  *)
(* stream ends with streaming_complete carrying it and has no error event. *)
C11_LLMFailureApology ==
    (service = "agent" /\ LLMFailed) =>
        /\ Last(llm).fail
        /\ \A i \in 1..(Len(llm) - 1) : ~llm[i].fail
        /\ IsGenerateApology(Last(st.messages))
        /\ Cardinality({i \in (Len(pre) + 1)..Len(st.messages) :
                            st.messages[i].content = ApologyGenerate}) = 1
        /\ st.tool_calls = <<>>
        /\ st.ai_response = ApologyGenerate
        /\ pc \in {"format_output", "idle"}
        /\ (pc = "idle" /\ result.cause # "fault") =>
              /\ Last(trace) = "format_output"
              /\ result.response = ApologyGenerate
              /\ IF mode = "invoke"
                 THEN result.kind = "returned"
                 ELSE /\ result.kind = "complete"
                      /\ Last(events) = Event("streaming_complete",
                                              ApologyGenerate, <<>>, <<>>)
                      /\ Count(events, IsErrorEvent) = 0

\* C11, witness: a streaming turn whose second LLM call, after a tool round,
\* failed, and which ended with streaming_complete.
C11_Witness ==
    /\ AgentTurnOver
    /\ mode = "stream"
    /\ Len(llm) = 2
    /\ llm[2].fail
    /\ Count(trace, IsCallTools) = 1
    /\ result.kind = "complete"

\* the tool call with this id among the Assistant messages of msgs
CallOf(msgs, id) ==
    LET calls == {msgs[i].tool_calls[k] : <<i, k>> \in
                     {<<i, k>> \in (1..Len(msgs)) \X (1..2) :
                         k <= Len(msgs[i].tool_calls)}}
    IN CHOOSE c \in calls : c.id = id

ToolNotFound(name) == <<"tool not found: ", name>>

\* the ToolResults the running turn has appended
TurnToolResults ==
    {i \in (Len(pre) + 1)..Len(st.messages) : st.messages[i].role = "tool"}

(* C12: a ToolResult of the turn that answers a call of a tool outside the *)
(* catalog has the content "tool not found: <name>", one that answers a    *)
(* call of a tool that raised carries an error text; after call_tools the  *)
(* workflow goes on to generate_response; a turn in which a tool failed    *)
(* and nothing else raised ends without an error event.                    *)
C12_ToolErrorIsResult ==
    /\ \A i \in TurnToolResults :
          LET name == CallOf(st.messages, st.messages[i].tool_call_id).name
          IN /\ name \notin Catalog =>
                    st.messages[i].content = ToolNotFound(name)
             /\ name \in RaisingTools => st.messages[i].content[1] = "Error: "
    /\ (service = "agent" /\ trace # <<>> /\ Last(trace) = "call_tools") =>
          (pc = "generate_response" \/ (pc = "idle" /\ result.cause # "none"))
    /\ (AgentTurnOver /\ ToolFailed /\ result.cause = "none") =>
          /\ Count(events, IsErrorEvent) = 0
          /\ result.kind \in {"returned", "complete", "exhausted"}

\* the index of the last Assistant message of msgs (0 if there is none)
LastAssistant(msgs) ==
    IF \E i \in 1..Len(msgs) : msgs[i].role = "ai"
    THEN CHOOSE i \in 1..Len(msgs) :
             msgs[i].role = "ai" /\ \A j \in (i + 1)..Len(msgs) : msgs[j].role # "ai"
    ELSE 0

(* C13: the tool runs of one call_tools execution happen one at a time in  *)
(* tool-call order (each run ends before the next starts), and the         *)
(* ToolResults are appended in the order of the tool calls of the          *)
(* Assistant message they answer.                                          *)
C13_SequentialInCallOrder ==
    (service = "agent" /\ trace # <<>> /\ Last(trace) = "call_tools") =>
        LET a == LastAssistant(st.messages)
            n == Len(st.messages) - a
            calls == st.messages[a].tool_calls
        IN /\ n = Len(calls)
           /\ \A k \in 1..n :
                 /\ st.messages[a + k].role = "tool"
                 /\ st.messages[a + k].tool_call_id = calls[k].id
           /\ Len(executions) = 2 * n
           /\ \A k \in 1..n :
                 /\ executions[2 * k - 1] = <<"start", calls[k].id>>
                 /\ executions[2 * k] = <<"end", calls[k].id>>

IsToolsPending(e) == e.type = "tools_pending"
IsToolExecuting(e) == e.type = "tool_executing"
IsResponseReady(e) == e.type = "ai_response_ready"

(* C14: the events of a turn hold at most one tools_pending event, and     *)
(* they hold one exactly when the flag tools_displayed is set.             *)
C14_ToolsPendingOnce ==
    service = "agent" =>
        /\ Count(events, IsToolsPending) <= 1
        /\ tools_displayed <=> Count(events, IsToolsPending) = 1

\* C14, witness: a finished streaming turn in which two reasoning passes
\* asked for tools, with its one tools_pending event.
C14_Witness ==
    /\ AgentTurnOver
    /\ mode = "stream"
    /\ Count(trace, IsCallTools) >= 2
    /\ Count(events, IsToolsPending) = 1

C16_ResponseReadyAfterTools ==
    (AgentTurnOver /\ mode = "stream" /\ result.kind = "complete") =>
        /\ Count(events, IsResponseReady) <= 1
        /\ Count(events, IsResponseReady) = 1 => Count(trace, IsCallTools) >= 1
        /\ \A i \in 1..Len(events), j \in 1..Len(events) :
              (IsResponseReady(events[i]) /\ IsToolExecuting(events[j])) => j < i
        /\ Count(trace, IsCallTools) = 0 =>
              \A i \in 1..Len(events) :
                  events[i].type \in {"workflow_step", "text", "streaming_complete"}

----------------------------------------------------------------------------
(* Properties of the start-up (CatalogSpec). *)

Range(seq) == {seq[i] : i \in 1..Len(seq)}

CoreNodes ==
    {"__start__", "process_input", "generate_response", "format_output",
     "__end__"}

C18_UniqueNamesLocalWins ==
    \A i \in 1..Len(agent_tools), j \in 1..Len(agent_tools) :
        agent_tools[i].name = agent_tools[j].name => i = j

(* C19: an initialize() returns ok exactly when the discovery of at least  *)
(* one of the manager's servers succeeded, and the tools of the servers    *)
(* whose discovery succeeded are then held by the client.                  *)
C19_InitializeOkIfAnyServer ==
    last_init.called =>
        /\ last_init.ok <=> (last_init.reached # {})
        /\ \A server \in last_init.reached :
              Range(ToolsOf(<<server>>)) \subseteq Range(GetTools(mgr_client))

(* C20: tools() returns only tools of servers whose discovery succeeded in *)
(* the last initialize(), and nothing after an initialize() that returned  *)
(* fail.                                                                   *)
C20_ToolsOnlyFromConnected ==
    /\ \A t \in Range(GetTools(mgr_client)) : t.origin \in last_init.reached
    /\ (last_init.called /\ ~last_init.ok) => GetTools(mgr_client) = <<>>

----------------------------------------------------------------------------
(* Configuration and registration. *)

IsNumber(timeout) == timeout \in {DefaultTimeout}

\* an entry as the configuration contract wants it
WellFormed(entry) ==
    /\ entry.name # ""
    /\ StartsWithHttp(entry.url)
    /\ entry.timeout \in {"unset"} \cup {t \in Timeouts : IsNumber(t)}

Configured == config_log.by # "none"

LoggedAbout(level, name) ==
    \E i \in 1..Len(config_log.lines) :
        config_log.lines[i] = LogLine(level, name)

(* C21: after the servers are configured from a list of entries, every     *)
(* stored server has a non-empty name, an http:// or https:// URL and a    *)
(* numeric timeout; an ill-formed entry is left out and a line is logged   *)
(* about it, and every well-formed entry of the list is stored whatever    *)
(* stands before or after it.                                              *)
C21_StoredServersValid ==
    Configured =>
        /\ \A i \in 1..Len(mcp_registry) :
              /\ mcp_registry[i].name # ""
              /\ StartsWithHttp(mcp_registry[i].url)
              /\ IsNumber(mcp_registry[i].timeout)
        /\ \A j \in 1..Len(settings) :
              IF WellFormed(settings[j])
              THEN Registered(mcp_registry, settings[j].name)
              ELSE \E level \in {"warning", "error"} :
                      LoggedAbout(level, settings[j].name)

(* C22: registering a tool under a name that the registry already has is   *)
(* rejected with an error, and the registry stays as it was: the tool      *)
(* registered before and its enabled status are still in place.            *)
C22_DuplicateRejected ==
    (last_register.called
       /\ \E i \in 1..Len(last_register.before) :
             last_register.before[i].name = last_register.name)
    => (last_register.raised /\ last_register.after = last_register.before)

----------------------------------------------------------------------------
(* Continuous mode. *)

SaysBye(line) == Lower(Strip(line)) = ByeCommand
OnlyWhitespace(line) == \A i \in 1..Len(line) : line[i] \in WhitespaceChars

\* this step has read a line
ReadsLine == consumed' # consumed
\* this step has started a turn
StartsTurn == Len(turns') > Len(turns)

(* C23: when the input read is "/bye" (trimmed, in any case) no turn is    *)
(* run for it and the loop exits; once the loop has exited no input is     *)
(* read and no turn runs; for the inputs "q" then "/bye" exactly one turn  *)
(* runs.                                                                   *)
C23_ByeEndsLoop ==
    /\ [][(ReadsLine /\ SaysBye(Last(consumed')))
            => (turns' = turns /\ llm' = llm /\ loop' = "exited")]_vars
    /\ [][loop = "exited"
            => (stdin' = stdin /\ consumed' = consumed /\ turns' = turns)]_vars
    /\ [](\A u \in UserInputs :
             (Len(consumed) = 2 /\ consumed[1] = u /\ SaysBye(consumed[2]))
             => Len(turns) = 1)

\* "q" and "/bye" were read, one turn ran, and a line was left unread
C23_Witness ==
    /\ ended_by = "bye"
    /\ Len(consumed) = 2
    /\ consumed[1] \in UserInputs
    /\ Len(turns) = 1
    /\ stdin # <<>>

(* C24: an input that is empty or only whitespace runs no turn and emits   *)
(* no events: the LLM is not called, the session history and the           *)
(* transcript log are unchanged, and the loop stays in its reading state.  *)
C24_EmptyInputSkipped ==
    [][(ReadsLine /\ OnlyWhitespace(Last(consumed')))
        => (/\ UNCHANGED <<conv, llm, events, turns, conversation_log,
                           transcript, reports>>
            /\ loop' = "running")]_vars

\* a blank line was skipped and the line after it got its turn
C24_Witness ==
    /\ Len(consumed) = 2
    /\ consumed[1] = <<" ">>
    /\ Len(turns) = 1
    /\ turns[1].ended = "answered"

(* C25: an exception raised while a turn is processed (not a keyboard      *)
(* interrupt, not the end of the input) is reported and the loop stays in  *)
(* its reading state: the session never ends because of it.                *)
C25_TurnExceptionReported ==
    /\ [][(StartsTurn /\ Last(turns').ended = "raised")
            => (/\ reports' = Append(reports, "turn")
                /\ loop' = "running"
                /\ ended_by' = ended_by)]_vars
    /\ [](ended_by # "exception")

\* a turn raised and the turn of the next input was answered
C25_Witness ==
    /\ Len(turns) = 2
    /\ turns[1].ended = "raised"
    /\ turns[2].ended = "answered"
    /\ reports = <<"turn">>

(* C26: on a piped input of finitely many lines the loop terminates        *)
(* whatever the lines hold: a step reads at most one line and a turn       *)
(* starts only with a line read, each line read is echoed exactly once,    *)
(* and at the end of the input the loop ends without a turn and without    *)
(* an error report.                                                        *)
C26_PipedInputTerminates ==
    /\ [](~is_tty => echoed = consumed)
    /\ [][~is_tty => (/\ Len(consumed') <= Len(consumed) + 1
                      /\ StartsTurn => ReadsLine)]_vars
    /\ [][(~is_tty /\ stdin = <<>> /\ loop = "running")
            => (loop' = "exited" /\ turns' = turns /\ reports' = reports)]_vars
    /\ (~is_tty => <>(loop = "exited"))

Answered(turn) == turn.ended = "answered"

RECURSIVE PairsOf(_)
PairsOf(ts) ==
    IF ts = <<>> THEN <<>>
    ELSE <<<<"user", ts[1].input>>, <<"ai", ts[1].response>>>>
         \o PairsOf(Tail(ts))

----------------------------------------------------------------------------
(* Formatting and streaming of the answer. *)

\* the answer as the format_output node has formatted it
FormattedAnswer == node_state.ai_response

\* the stream has yielded the formatted answer
StreamedAnswer == format_pc = "streamed" /\ stream_end.complete

(* C28: the answer formatter is idempotent: formatting the formatted       *)
(* answer again, as the stream does with the text the node has formatted,  *)
(* gives the formatted answer.                                             *)
C28_FormatterIdempotent ==
    StreamedAnswer => stream_end.final_response = FormattedAnswer

\* the text events among events, in order
TextsOf(evs) == SelectSeq(evs, LAMBDA e : e.type = "text")

\* where the "\n" events are among the text events
BreaksOf(texts) == {i \in 1..Len(texts) : texts[i].text = <<"\n">>}

\* the text events between the (k - 1)-th and the k-th "\n" event
GroupOf(texts, k) ==
    LET breaks == BreaksOf(texts)
        Nth(n) == IF n = 0 THEN 0
                  ELSE IF n > Cardinality(breaks) THEN Len(texts) + 1
                  ELSE CHOOSE i \in breaks :
                           Cardinality({j \in breaks : j < i}) = n - 1
    IN SubSeq(texts, Nth(k - 1) + 1, Nth(k) - 1)

\* the events of one line: none for a blank line, else one per token, the
\* first verbatim and each later one behind exactly one space
ChunksOfLine(group, line) ==
    LET tokens == SmartSplit(line)
    IN /\ Len(group) = Len(tokens)
       /\ \A j \in 1..Len(group) :
              group[j].text = IF j = 1 THEN tokens[j] ELSE <<" ">> \o tokens[j]

\* evs streams the text: its lines in order, one "\n" event between two
\* lines, and streaming_complete with the text after every text event
StreamsText(evs, text) ==
    LET texts == TextsOf(evs)
        lines == SplitOn(text, "\n")
    IN /\ Cardinality(BreaksOf(texts)) = Len(lines) - 1
       /\ \A k \in 1..Len(lines) : ChunksOfLine(GroupOf(texts, k), lines[k])
       /\ evs # <<>>
       /\ Last(evs).type = "streaming_complete"
       /\ Last(evs).text = text
       /\ \A i \in 1..(Len(evs) - 1) : evs[i].type # "streaming_complete"

(* C29: in a successful streaming turn the text events are the formatted   *)
(* answer line by line: per line its tokens in order, the first verbatim   *)
(* and each later one behind exactly one space, one "\n" event between two *)
(* consecutive lines, and after all of them streaming_complete, whose      *)
(* final_response is the formatted answer.                                 *)
C29_TextEventsFromFormattedAnswer ==
    StreamedAnswer => StreamsText(stream_end.events, FormattedAnswer)

----------------------------------------------------------------------------
(* Export. *)

\* both formats have been written for the same workflow and tool list
ExportedBoth ==
    /\ exported.json.written
    /\ exported.mermaid.written
    /\ exported.json.graph = exported.mermaid.graph
    /\ exported.json.tools = exported.mermaid.tools

(* C30: for the same compiled workflow and tool list, the node set and the *)
(* edge set written by the JSON export equal the node set and the edge set *)
(* written by the Mermaid export.                                          *)
C30_ExportsAgree ==
    ExportedBoth =>
        /\ JsonNodes(exported.json.content)
               = MermaidNodes(exported.mermaid.content)
        /\ JsonEdges(exported.json.content)
               = MermaidEdges(exported.mermaid.content)

----------------------------------------------------------------------------
(* The local tools. *)

\* the result of the call as a call with these arguments would give it at
\* the same instant
AnswersAs(format_type, timezone) ==
    time_call.result = GetCurrentTime(format_type, timezone,
                                      time_call.instant)

\* the value is text: a pattern or the name of a format, the reading of the
\* clock and a suffix, or the message of the except clause
IsTimeString(value) ==
    \/ value = TimeUnavailable
    \/ /\ Len(value) = 3
       /\ value[1] \in {"%Y-%m-%d", "%H:%M:%S", "iso", "%Y-%m-%d %H:%M:%S"}
       /\ value[2] \in Nat
       /\ value[3] \in {" UTC", " (Local)", "+00:00", ""}

(* C31: get_current_time with a format outside the allowed list answers as *)
(* with format datetime, with a timezone outside the allowed list as with  *)
(* timezone local, and for every pair of arguments it returns a string and *)
(* does not raise.                                                         *)
C31_UnknownArgumentsCoerced ==
    time_call.called =>
        /\ time_call.format_type \notin AllowedFormats
               => AnswersAs("datetime", time_call.timezone)
        /\ time_call.timezone \notin AllowedTimezones
               => AnswersAs(time_call.format_type, "local")
        /\ ~time_call.result.raised
        /\ IsTimeString(time_call.result.value)
        /\ time_call.result.value # TimeUnavailable

\* the tool has been called with a format and a timezone that are not allowed
C31_Witness ==
    /\ time_call.called
    /\ Truthy(time_call.format_type)
    /\ time_call.format_type \notin AllowedFormats
    /\ Truthy(time_call.timezone)
    /\ time_call.timezone \notin AllowedTimezones
    /\ time_call.result.value = <<"%Y-%m-%d %H:%M:%S",
                                  time_call.instant + LocalOffset, " (Local)">>

----------------------------------------------------------------------------
(* The sources of state.tool_calls. *)

\* generate_response has run on the history and the LLM has answered
Reasoned == pc = "reasoned" /\ ~Last(llm).fail

\* the message the LLM has returned: the last one of the state
Returned == Last(st.messages)

\* the tool calls of the most recent message that has any among the last
\* five messages, <<>> if none of them has
RecentCalls(msgs) ==
    LET from == IF Len(msgs) > ScanWindow THEN Len(msgs) - ScanWindow + 1
                ELSE 1
        with == {i \in from..Len(msgs) : HasToolCalls(msgs[i])}
    IN IF with = {} THEN <<>>
       ELSE msgs[CHOOSE i \in with : \A j \in with : j <= i].tool_calls

(* C32: generate_response fills state.tool_calls from the first non-empty  *)
(* of (a) the structured tool calls of the returned message, (b) the tool  *)
(* calls in its additional_kwargs, (c) the most recent message with tool   *)
(* calls among the last five messages; (c) is consulted only when (a) and  *)
(* (b) yield no call, and calls of different sources are never mixed.      *)
C32_FirstSourceWins ==
    Reasoned =>
        /\ Returned.tool_calls # <<>> => st.tool_calls = Returned.tool_calls
        /\ (Returned.tool_calls = <<>> /\ Returned.kwargs_calls # <<>>)
               => st.tool_calls = Returned.kwargs_calls
        /\ (Returned.tool_calls = <<>> /\ Returned.kwargs_calls = <<>>)
               => st.tool_calls = RecentCalls(st.messages)

\* the LLM has returned tool calls in additional_kwargs only, and an
\* earlier message of the window has tool calls of its own
C32_Witness ==
    /\ Reasoned
    /\ Returned.tool_calls = <<>>
    /\ Returned.kwargs_calls # <<>>
    /\ RecentCalls(st.messages) # <<>>
    /\ st.tool_calls = Returned.kwargs_calls

----------------------------------------------------------------------------
(* The operations of the tool registry. *)

\* the names of the registered tools whose status is enabled
EnabledNames ==
    {tool_registry[i].name : i \in {k \in 1..Len(tool_registry) :
                                       tool_registry[k].enabled}}

(* C33: after any sequence of register_tool, enable_tool and disable_tool  *)
(* get_enabled_tools returns exactly the registered tools whose status is  *)
(* enabled, get_tool_count has total = enabled + disabled with none of     *)
(* them negative, and enable_tool or disable_tool of a name that is not    *)
(* registered returns False and changes no status.                         *)
C33_RegistryConsistent ==
    /\ LET tools == GetEnabledTools(tool_registry)
       IN /\ {tools[i].name : i \in 1..Len(tools)} = EnabledNames
          /\ Len(tools) = Cardinality(EnabledNames)
    /\ LET count == GetToolCount(tool_registry)
       IN /\ count.total = count.enabled + count.disabled
          /\ count.total >= 0 /\ count.enabled >= 0 /\ count.disabled >= 0
          /\ count.enabled = Cardinality(EnabledNames)
    /\ (last_toggle.called
        /\ \A i \in 1..Len(last_toggle.before) :
               last_toggle.before[i].name # last_toggle.name)
           => /\ ~last_toggle.returned
              /\ last_toggle.after = last_toggle.before

\* two tools are registered, one enabled and one not, and the last call
\* was for a name that is not registered
C33_Witness ==
    /\ Len(tool_registry) = 2
    /\ Cardinality(EnabledNames) = 1
    /\ last_toggle.called
    /\ last_toggle.name = "X"
    /\ ~last_toggle.returned

----------------------------------------------------------------------------
(* The tool runs of a streaming turn, as the event stream shows them. *)

IsToolResult(msg) == msg.role = "tool"
IsTextEvent(e) == e.type = "text"
IsShown(e) == e.type # "workflow_step"

\* the ToolResults the turn has appended, in order
TurnResults ==
    SelectSeq(SubSeq(st.messages, Len(pre) + 1, Len(st.messages)),
              IsToolResult)

(* C34: in a streaming turn that ended with the workflow's answer there is *)
(* one tool_executing event for every tool call that call_tools executed,  *)
(* with the name of the called tool, in the order of the calls, behind a   *)
(* tools_pending event and before every text event; a turn with the one    *)
(* call of tool A yields tools_pending, tool_executing, ai_response_ready, *)
(* text events and streaming_complete, in this order.                      *)
C34_OneExecutingPerCall ==
    (AgentTurnOver /\ mode = "stream" /\ result.kind = "complete") =>
        LET executing == SelectSeq(events, IsToolExecuting)
            shown == SelectSeq(events, IsShown)
        IN /\ Len(executing) = Len(TurnResults)
           /\ \A k \in 1..Len(executing) :
                 k <= Len(TurnResults) =>
                     executing[k].info[1]
                         = CallOf(st.messages, TurnResults[k].tool_call_id).name
           /\ \A i \in 1..Len(events) :
                 IsToolExecuting(events[i]) =>
                     /\ \E j \in 1..(i - 1) : IsToolsPending(events[j])
                     /\ \A j \in 1..Len(events) :
                           IsTextEvent(events[j]) => i < j
           /\ (Len(TurnResults) = 1
               /\ CallOf(st.messages, TurnResults[1].tool_call_id).name = "A")
                 => /\ Len(shown) >= 5
                    /\ shown[1].type = "tools_pending"
                    /\ shown[2].type = "tool_executing"
                    /\ shown[2].info = <<"A">>
                    /\ shown[3].type = "ai_response_ready"
                    /\ \A k \in 4..(Len(shown) - 1) : shown[k].type = "text"
                    /\ shown[Len(shown)].type = "streaming_complete"

----------------------------------------------------------------------------
(* The tool-call list that chat() returns. *)

\* the tool calls the LLM has asked for in the running turn, structured or
\* left in additional_kwargs
TurnRequests ==
    UNION {Range(st.messages[i].tool_calls)
               \cup Range(st.messages[i].kwargs_calls) :
           i \in {k \in (Len(pre) + 1)..Len(st.messages) :
                     st.messages[k].role = "ai"}}

(* C35: the tool-call list that chat() returns for a turn holds only tool  *)
(* calls that the LLM asked for in that turn, and it is empty when no tool *)
(* ran in the turn, whatever earlier turns of the session did.             *)
C35_ToolCallsOfThisTurn ==
    (AgentTurnOver /\ mode = "invoke" /\ result.kind = "returned") =>
        /\ Range(result.tool_calls) \subseteq TurnRequests
        /\ Count(trace, IsCallTools) = 0 => result.tool_calls = <<>>

----------------------------------------------------------------------------
(* Connecting the remote servers more than once. *)

(* C36: connect_mcp_servers is idempotent on the catalog: a second call in *)
(* the session adds no remote tool that the first call has added, so no    *)
(* tool of a server is in the catalog twice.                               *)
C36_ConnectIdempotent ==
    app # NoApp =>
        \A i \in 1..Len(agent_tools), j \in 1..Len(agent_tools) :
            (agent_tools[i] = agent_tools[j]
             /\ agent_tools[i].origin # "local") => i = j

----------------------------------------------------------------------------
(* The session history after a failed turn. *)

(* C37: after a turn that failed (the stream ended with the apology of its *)
(* except clause, or chat() returned its fallback apology) the session     *)
(* history is what it was when the turn started.                           *)
C37_FailedTurnLeavesHistory ==
    (pc = "idle" /\ result.kind \in {"error", "fallback"}) => conv = pre

----------------------------------------------------------------------------
(* The two entry points of a turn. *)

(* C38: the nodes of the workflow do not depend on the entry point, so for *)
(* the same history, input and LLM and tool outputs both paths reach the   *)
(* same final state; there chat() returns the state's ai_response and      *)
(* stores the state's messages.  A streaming turn that ended with          *)
(* streaming_complete has delivered that answer as its final_response and  *)
(* has left that message list in the session history.                      *)
C38_StreamEqualsChat ==
    (AgentTurnOver /\ mode = "stream" /\ result.kind = "complete") =>
        /\ result.response = st.ai_response
        /\ conv = st.messages

====
